---- MODULE Spec2Model ----
(***************************************************************************)
(* Propagation path calculations of ARTS (src/src/ppath.cc): the entry     *)
(* resolution ppath_start_stepping and the driver ppath_calc, which calls  *)
(* the propagation path step agenda until a radiative background is found  *)
(* and merges the steps into one Ppath.                                    *)
(*                                                                         *)
(* Numeric values are exact rationals <<n, d>> (d > 0, lowest terms), so   *)
(* the model follows the code in real arithmetic; rounding of doubles is   *)
(* not modelled.  Lengths are in metres, angles in degrees.  An angle is a *)
(* term b + k*asin(q) with b an integer number of degrees, k in {-1,0,1}   *)
(* and q a rational in [0,1], which is closed under the operations the     *)
(* code applies to angles.  Indices are 0-based as in the code; vectors    *)
(* are sequences read through At(v, i) == v[i+1].                          *)
(***************************************************************************)
EXTENDS Integers, Sequences, FiniteSets, TLC

(***************************************************************************)
(* Exact arithmetic                                                        *)
(***************************************************************************)
Abs(x) == IF x < 0 THEN -x ELSE x

Max(a, b) == IF a >= b THEN a ELSE b

RECURSIVE Gcd(_, _)
Gcd(a, b) == IF b = 0 THEN a ELSE Gcd(b, a % b)

\* the rational n/d in lowest terms, d > 0
Q(n, d) == LET g == Gcd(Abs(n), Abs(d))
               s == IF d < 0 THEN -1 ELSE 1
           IN  <<(s * n) \div g, (s * d) \div g>>

I(n) == <<n, 1>>

QAdd(a, b) == Q(a[1] * b[2] + b[1] * a[2], a[2] * b[2])
QSub(a, b) == Q(a[1] * b[2] - b[1] * a[2], a[2] * b[2])
QMul(a, b) == Q(a[1] * b[1], a[2] * b[2])
QDiv(a, b) == Q(a[1] * b[2], a[2] * b[1])
QLt(a, b)  == a[1] * b[2] < b[1] * a[2]
QLe(a, b)  == a[1] * b[2] <= b[1] * a[2]
QAbs(a)    == <<Abs(a[1]), a[2]>>

\* the value of a vector element that was allocated but never written
Undef == <<0, 0>>

(***************************************************************************)
(* Angles: the term b + k*asin(q) degrees                                  *)
(***************************************************************************)
\* canonical form: asin(0) = 0, asin(1/2) = 30, asin(1) = 90
Ang(b, k, q) ==
    IF k = 0 \/ q = I(0) THEN [b |-> b, k |-> 0, q |-> I(0)]
    ELSE IF q = Q(1, 2) THEN [b |-> b + 30 * k, k |-> 0, q |-> I(0)]
    ELSE IF q = I(1) THEN [b |-> b + 90 * k, k |-> 0, q |-> I(0)]
    ELSE [b |-> b, k |-> k, q |-> q]

A(deg) == Ang(deg, 0, I(0))

UndefA == [b |-> 0, k |-> 0, q |-> Undef]

AAdd(x, y) ==
    IF x.k = 0 THEN Ang(x.b + y.b, y.k, y.q)
    ELSE IF y.k = 0 THEN Ang(x.b + y.b, x.k, x.q)
    ELSE IF x.q = y.q THEN Ang(x.b + y.b, x.k + y.k, x.q)
    ELSE UndefA

ANeg(x) == [b |-> -(x.b), k |-> -(x.k), q |-> x.q]

ASub(x, y) == AAdd(x, ANeg(y))

\* 0 < asin(q) < 90 for a canonical term with k # 0
AGt(x, deg) == IF x.k = 0 THEN x.b > deg
               ELSE IF x.k = 1 THEN x.b >= deg
               ELSE x.b >= deg + 90
ALt(x, deg) == IF x.k = 0 THEN x.b < deg
               ELSE IF x.k = 1 THEN x.b + 90 <= deg
               ELSE x.b <= deg
AGe(x, deg) == ~ALt(x, deg)
ALe(x, deg) == ~AGt(x, deg)

AAbs(x) == IF ALt(x, 0) THEN ANeg(x) ELSE x

\* sin of an angle in [0, 180]: exact for the angles with a rational sine
SinDeg(x) ==
    IF x.k = 0 THEN
        CASE x.b = 0   -> I(0)
          [] x.b = 30  -> Q(1, 2)
          [] x.b = 90  -> I(1)
          [] x.b = 150 -> Q(1, 2)
          [] x.b = 180 -> I(0)
    ELSE
        CASE x.b = 0 /\ x.k = 1    -> x.q
          [] x.b = 180 /\ x.k = -1 -> x.q

(***************************************************************************)
(* Vectors and grid positions                                              *)
(***************************************************************************)
At(v, i) == v[i + 1]

nelem(v) == Len(v)

\* v with the element of (0-based) index i set to x
Put(v, i, x) == [v EXCEPT ![i + 1] = x]

\* a vector of n copies of x
Fill(n, x) == [i \in 1..n |-> x]

\* GridPos: index of the lower grid point and the two fractional distances
GP(idx, fd0) == [idx |-> idx, fd |-> <<fd0, QSub(I(1), fd0)>>]

UndefGP == [idx |-> 0, fd |-> <<Undef, Undef>>]

\* grid position of x in an ascending grid of rationals: the last range
\* whose lower end is not above x (the first range for x below the grid)
gridpos(grid, x) ==
    LET below == {i \in 0..(nelem(grid) - 2) : QLe(At(grid, i), x)}
        idx   == IF below = {} THEN 0
                 ELSE CHOOSE i \in below : \A j \in below : j <= i
    IN  GP(idx, QDiv(QSub(x, At(grid, idx)),
                     QSub(At(grid, idx + 1), At(grid, idx))))

\* fractional distances slightly outside [0,1] are moved to the end points
gridpos_check_fd(gp) ==
    IF QLt(At(gp.fd, 0), I(0)) THEN GP(gp.idx, I(0))
    ELSE IF QLt(I(1), At(gp.fd, 0)) THEN GP(gp.idx, I(1))
    ELSE gp

\* the grid position is moved onto the nearest grid point; fd[0] = 1 is used
\* only at the end of the complete grid (n: length of the grid)
gridpos_force_end_fd(gp, n) ==
    LET idx == IF QLt(Q(1, 2), At(gp.fd, 0)) THEN gp.idx + 1 ELSE gp.idx
    IN  IF idx = n - 1 THEN GP(idx - 1, I(1)) ELSE GP(idx, I(0))

fractional_gp(gp) == QAdd(I(gp.idx), At(gp.fd, 0))

is_gridpos_at_index_i(gp, i) ==
    \/ At(gp.fd, 0) = I(0) /\ gp.idx = i
    \/ At(gp.fd, 0) = I(1) /\ gp.idx = i - 1

\* linear interpolation of the vector v at the grid position gp
interp(v, gp) == QAdd(QMul(At(gp.fd, 1), At(v, gp.idx)),
                      QMul(At(gp.fd, 0), At(v, gp.idx + 1)))

(***************************************************************************)
(* The Ppath structure                                                     *)
(***************************************************************************)
\* a position vector with every element x: altitude, latitude[, longitude]
PosVec(npos, x) == [i \in 1..npos |-> IF i = 1 THEN I(x) ELSE A(x)]

UndefPos(npos) == [i \in 1..npos |-> IF i = 1 THEN Undef ELSE UndefA]

LosVec(nlos, x) == [i \in 1..nlos |-> A(x)]

UndefLos(nlos) == [i \in 1..nlos |-> UndefA]

BackgroundName(case_nr) ==
    CASE case_nr = 0 -> "unvalid"
      [] case_nr = 1 -> "space"
      [] case_nr = 2 -> "surface"
      [] case_nr = 3 -> "cloud box level"
      [] case_nr = 4 -> "cloud box interior"
      [] case_nr = 9 -> "transmitter"

ppath_set_background(ppath, case_nr) ==
    [ppath EXCEPT !.background = BackgroundName(case_nr)]

ppath_what_background(ppath) ==
    CASE ppath.background = "unvalid"            -> 0
      [] ppath.background = "space"              -> 1
      [] ppath.background = "surface"            -> 2
      [] ppath.background = "cloud box level"    -> 3
      [] ppath.background = "cloud box interior" -> 4
      [] ppath.background = "transmitter"        -> 9

\* a length 0, or the difference l_at_r(ppc, r1) - l_at_r(ppc, r2) kept as a
\* term (the square roots are not rational)
ZeroL == [ppc |-> I(0), r1 |-> I(0), r2 |-> I(0)]

ppath_init_structure(atmosphere_dim, np) ==
    LET npos == Max(2, atmosphere_dim)
        nlos == Max(1, atmosphere_dim - 1)
    IN  [dim         |-> atmosphere_dim,
         np          |-> np,
         constant    |-> I(-1),
         start_pos   |-> PosVec(npos, -999),
         start_los   |-> LosVec(nlos, -999),
         start_lstep |-> I(0),
         end_pos     |-> UndefPos(npos),
         end_los     |-> UndefLos(nlos),
         end_lstep   |-> ZeroL,
         pos         |-> Fill(np, UndefPos(npos)),
         los         |-> Fill(np, UndefLos(nlos)),
         r           |-> Fill(np, Undef),
         lstep       |-> Fill(np - 1, Undef),
         gp_p        |-> Fill(np, UndefGP),
         gp_lat      |-> IF atmosphere_dim >= 2 THEN Fill(np, UndefGP) ELSE <<>>,
         gp_lon      |-> IF atmosphere_dim = 3 THEN Fill(np, UndefGP) ELSE <<>>,
         background  |-> BackgroundName(0),
         nreal       |-> Fill(np, Undef),
         ngroup      |-> Fill(np, Undef)]

(***************************************************************************)
(* State                                                                   *)
(***************************************************************************)
VARIABLES
    atmosphere_dim,            \* inputs of ppath_calc (read only)
    z_field,                   \*   altitudes [pressure level][lat][lon]
    lat_grid,
    lon_grid,
    refellipsoid,
    z_surface,                 \*   surface altitude [lat][lon]
    cloudbox_on,
    cloudbox_limits,
    ppath_inside_cloudbox_do,
    rte_pos,
    rte_los,
    agenda,                    \* behaviour of ppath_step_agenda
    pc,                        \* position inside ppath_calc
    err,                       \* the runtime_error thrown, "" if none
    ppath,                     \* the output argument of ppath_calc
    ppath_step,                \* locals of ppath_calc
    ppath_array,
    np,
    istep,
    end_first,                 \*   end_lstep, end_pos, end_los
    ncalls,                    \* history: the calls of ppath_step_agenda
    locals                     \* locals of a function that is called alone

inputs == <<atmosphere_dim, z_field, lat_grid, lon_grid, refellipsoid,
            z_surface, cloudbox_on, cloudbox_limits,
            ppath_inside_cloudbox_do, rte_pos, rte_los, agenda>>

vars == <<inputs, pc, err, ppath, ppath_step, ppath_array, np, istep,
          end_first, ncalls, locals>>

\* no function is called alone
NoLocals == <<>>

\* z_field(ip, ilat, ilon) and z_surface(ilat, ilon)
zf(ip, ilat, ilon) == At(At(At(z_field, ip), ilat), ilon)

zs(ilat, ilon) == At(At(z_surface, ilat), ilon)

\* z_field(joker, 0, 0): the altitudes of the pressure levels of a 1D atmosphere
zcol1d == [i \in 1..nelem(z_field) |-> zf(i - 1, 0, 0)]

(***************************************************************************)
(* Geometrical propagation paths                                           *)
(***************************************************************************)
RTOL == Q(1, 1000)

geometrical_ppc(r, za) == QMul(r, SinDeg(AAbs(za)))

\* a changed function: the zenith angle of the upward direction is given
\* also for a path that goes downward
geompath_za_upward(ppc, a_za, r) ==
    IF QLt(ppc, r) THEN
        IF ALt(a_za, 0) THEN ANeg(Ang(0, 1, QDiv(ppc, r))) ELSE Ang(0, 1, QDiv(ppc, r))
    ELSE IF AGt(a_za, 0) THEN A(90) ELSE A(-90)

geompath_za_at_r(ppc, a_za, r) ==
    IF QLt(ppc, r) THEN
        LET za1 == Ang(0, 1, QDiv(ppc, r))
            za2 == IF AGt(AAbs(a_za), 90) THEN ASub(A(180), za1) ELSE za1
        IN  IF ALt(a_za, 0) THEN ANeg(za2) ELSE za2
    ELSE IF AGt(a_za, 0) THEN A(90) ELSE A(-90)

\* a changed latitude: the zenith angle at the point is not subtracted
geompath_lat_from_za0(za0, lat0, za) == AAdd(lat0, za0)

geompath_lat_at_za(za0, lat0, za) == ASub(AAdd(lat0, za0), za)

\* geompath_l_at_r(ppc, r1) - geompath_l_at_r(ppc, r2), kept as a term
geompath_l_diff(ppc, r1, r2) ==
    IF r1 = r2 THEN ZeroL ELSE [ppc |-> ppc, r1 |-> r1, r2 |-> r2]

(***************************************************************************)
(* ppath_start_stepping                                                    *)
(***************************************************************************)
\* the result of a function that may throw: err # "" is the runtime_error
Ok(p)    == [err |-> "", ppath |-> p]
Thrown(msg, p) == [err |-> msg, ppath |-> p]

\* fgp >= limits[lo] && fgp <= limits[lo+1]
InLimits(fgp, lo) ==
    /\ QLe(I(At(cloudbox_limits, lo)), fgp)
    /\ QLe(fgp, I(At(cloudbox_limits, lo + 1)))

\* a changed test: no tolerance
BelowSurfaceExact(z, z_s) == QLt(z, z_s)

\* the sensor is below the surface by more than RTOL
BelowSurface(z, z_s) == QLt(QAdd(z, RTOL), z_s)

\* a changed test: a path that touches the top of the atmosphere enters it
TotallyOutsideStrict(za, ppc, r_toa) == ALe(za, 90) \/ QLt(r_toa, ppc)

\* 1D, the path is totally outside of the model atmosphere
TotallyOutside1D(za, ppc, r_toa) == ALe(za, 90) \/ QLe(r_toa, ppc)

\* the sensor position and line-of-sight are the end point of the path
EndAtSensor(p0, pos, los) == [p0 EXCEPT !.end_pos = pos, !.end_los = los]

\* the sensor is the first point of the path
PointAtSensor(p1, r, gp_p, gp_lat, gp_lon) ==
    [p1 EXCEPT !.pos    = <<p1.end_pos>>,
               !.r      = <<r>>,
               !.los    = <<p1.end_los>>,
               !.gp_p   = <<gp_p>>,
               !.gp_lat = IF p1.dim >= 2 THEN <<gp_lat>> ELSE p1.gp_lat,
               !.gp_lon = IF p1.dim = 3 THEN <<gp_lon>> ELSE p1.gp_lon]

\* the sensor is on the surface and looks down
OnSurface(p2, downwards) ==
    IF downwards THEN ppath_set_background(p2, 2) ELSE p2

\* a changed test: a sensor on the surface that looks down keeps the surface
InCloudboxUnlessSurface(p3) ==
    IF /\ cloudbox_on /\ ~ppath_inside_cloudbox_do
       /\ ppath_what_background(p3) = 0
       /\ InLimits(fractional_gp(At(p3.gp_p, 0)), 0)
       /\ p3.dim >= 2 => InLimits(fractional_gp(At(p3.gp_lat, 0)), 2)
       /\ p3.dim = 3 => InLimits(fractional_gp(At(p3.gp_lon, 0)), 4)
    THEN ppath_set_background(p3, 4) ELSE p3

\* the sensor is inside the cloud box
InCloudbox(p3) ==
    IF /\ cloudbox_on /\ ~ppath_inside_cloudbox_do
       /\ InLimits(fractional_gp(At(p3.gp_p, 0)), 0)
       /\ p3.dim >= 2 => InLimits(fractional_gp(At(p3.gp_lat, 0)), 2)
       /\ p3.dim = 3 => InLimits(fractional_gp(At(p3.gp_lon, 0)), 4)
    THEN ppath_set_background(p3, 4) ELSE p3

\* the sensor is outside of the atmosphere: the path constant
OutsideSensor(p1, ppc) ==
    [p1 EXCEPT !.nreal = <<I(1)>>, !.ngroup = <<I(1)>>, !.constant = ppc]

\* the path is totally outside of the atmosphere
InSpace(p2, pos, r, los) ==
    ppath_set_background([p2 EXCEPT !.pos = <<pos>>, !.r = <<r>>, !.los = <<los>>], 1)

\* 1D: the path enters the atmosphere at its top with the zenith angle za
EnterAtTop1D(p2, ppc, r_s, r_toa, za) ==
    LET lp == nelem(z_field) - 1
        p3 == [p2 EXCEPT
                 !.r   = <<r_toa>>,
                 !.pos = <<<<zf(lp, 0, 0),
                             geompath_lat_at_za(At(rte_los, 0), A(0), za)>>>>,
                 !.los = <<<<za>>>>,
                 !.end_lstep = geompath_l_diff(ppc, r_s, r_toa),
                 !.gp_p = <<GP(lp - 1, I(1))>>]
    IN  IF cloudbox_on /\ At(cloudbox_limits, 1) = lp
        THEN ppath_set_background(p3, 3) ELSE p3

start_stepping_1d ==
    LET lp    == nelem(z_field) - 1
        r_s   == QAdd(At(refellipsoid, 0), At(rte_pos, 0))
        r_toa == QAdd(At(refellipsoid, 0), zf(lp, 0, 0))
        ppc   == geometrical_ppc(r_s, At(rte_los, 0))
        p1    == EndAtSensor(ppath_init_structure(1, 1),
                             <<At(rte_pos, 0), A(0)>>, <<At(rte_los, 0)>>)
    IN  IF QLt(At(rte_pos, 0), zf(lp, 0, 0)) THEN
            \* sensor is inside the model atmosphere
            IF BelowSurface(At(rte_pos, 0), zs(0, 0)) THEN
                Thrown("The ppath starting point is placed below the surface.", p1)
            ELSE
                Ok(InCloudbox(OnSurface(
                     PointAtSensor(p1, r_s,
                        gridpos_check_fd(gridpos(zcol1d, At(rte_pos, 0))),
                        UndefGP, UndefGP),
                     QLe(At(rte_pos, 0), zs(0, 0)) /\ AGt(At(rte_los, 0), 90))))
        ELSE
            \* sensor is outside the model atmosphere
            IF TotallyOutside1D(At(rte_los, 0), ppc, r_toa) THEN
                Ok(InSpace(OutsideSensor(p1, ppc),
                           <<At(rte_pos, 0), A(0)>>, r_s, <<At(rte_los, 0)>>))
            ELSE
                \* path enters the atmosphere
                Ok(EnterAtTop1D(OutsideSensor(p1, ppc), ppc, r_s, r_toa,
                                geompath_za_at_r(ppc, At(rte_los, 0), r_toa)))

(***************************************************************************)
(* 2D and 3D entry resolution                                              *)
(***************************************************************************)
\* a latitude or longitude given as a whole number of degrees, as a rational
Deg(a) == I(a.b)

\* radius of the reference ellipsoid; the model planets are spherical
\* (refellipsoid[1] = 0), where refell2r and refell2d give refellipsoid[0]
refell2r(lat) == At(refellipsoid, 0)

refell2d(gp_lat) == At(refellipsoid, 0)

\* the grid range a grid position belongs to, for a given direction
gridpos2gridrange(gp, upwards) ==
    IF QLt(I(0), At(gp.fd, 0)) /\ QLt(I(0), At(gp.fd, 1)) THEN gp.idx
    ELSE IF At(gp.fd, 0) = I(0) THEN (IF upwards THEN gp.idx ELSE gp.idx - 1)
    ELSE (IF upwards THEN gp.idx + 1 ELSE gp.idx)

\* z_field(ip, joker, 0) and z_field(ip, joker, joker) at (gp_lat[, gp_lon])
zrow(ip) == [i \in 1..nelem(lat_grid) |-> zf(ip, i - 1, 0)]

interp2(field, gp_lat, gp_lon) ==
    LET f(i, j) == At(At(field, i), j)
        a == gp_lat.idx
        o == gp_lon.idx
    IN  QAdd(QAdd(QMul(QMul(At(gp_lat.fd, 1), At(gp_lon.fd, 1)), f(a, o)),
                  QMul(QMul(At(gp_lat.fd, 0), At(gp_lon.fd, 1)), f(a + 1, o))),
             QAdd(QMul(QMul(At(gp_lat.fd, 1), At(gp_lon.fd, 0)), f(a, o + 1)),
                  QMul(QMul(At(gp_lat.fd, 0), At(gp_lon.fd, 0)), f(a + 1, o + 1))))

zsrow == [i \in 1..nelem(lat_grid) |-> zs(i - 1, 0)]

\* pressure grid position of the altitude z at the horizontal position
\* (gp_lat[, gp_lon]): the altitudes of the levels are interpolated there
rte_pos2gridpos_p(z, gp_lat, gp_lon) ==
    LET z_grid == [i \in 1..nelem(z_field) |->
                     IF atmosphere_dim = 2 THEN interp(zrow(i - 1), gp_lat)
                     ELSE interp2(At(z_field, i - 1), gp_lat, gp_lon)]
    IN  gridpos(z_grid, z)

\* RAD2DEG * RAD2DEG = (180/pi)^2, to five digits
RAD2DEG2 == Q(16414, 5)

plevel_slope_2d(z_surf, gp, za) ==
    LET i1 == gridpos2gridrange(gp, AGe(za, 0))
        r1 == QAdd(refell2r(At(lat_grid, i1)), At(z_surf, i1))
        r2 == QAdd(refell2r(At(lat_grid, i1 + 1)), At(z_surf, i1 + 1))
    IN  QDiv(QSub(r2, r1), QSub(At(lat_grid, i1 + 1), At(lat_grid, i1)))

plevel_angletilt(r, c1) == QDiv(QMul(RAD2DEG2, c1), r)

\* asin in degrees rounded to 1/100, for the ratios of the triples of the
\* path constant 80
AsinDeg(q) ==
    CASE q = Q(80, 116) -> Q(4360, 100)
      [] q = Q(80, 100) -> Q(5313, 100)
      [] q = Q(80, 89)  -> Q(6401, 100)
      [] q = Q(80, 82)  -> Q(7732, 100)

\* the number of degrees of an angle
AngDeg(x) == IF x.k = 0 THEN I(x.b) ELSE QAdd(I(x.b), QMul(I(x.k), AsinDeg(x.q)))

\* za > 90 - tilt || za < -90 - tilt
is_los_downwards(za, tilt) ==
    \/ QLt(QSub(I(90), tilt), AngDeg(za))
    \/ QLt(AngDeg(za), QSub(I(-90), tilt))

resolve_lon(lon, lon5, lon6) ==
    IF QLt(lon, lon5) /\ QLe(QAdd(lon, I(180)), lon6) THEN QAdd(lon, I(360))
    ELSE IF QLt(lon6, lon) /\ QLe(lon5, QSub(lon, I(180))) THEN QSub(lon, I(360))
    ELSE lon

\* the largest and smallest of a non-empty set of rationals
QMax(S) == CHOOSE x \in S : \A y \in S : QLe(y, x)

QMin(S) == CHOOSE x \in S : \A y \in S : QLe(x, y)

\* 2D: the sensor is outside of the atmosphere at a radius not above the
\* largest top-of-the-atmosphere radius
HorizontallyOutside2D(islatin, r_p, r_toa_max) == QLe(r_p, r_toa_max)

WrongDirection2D ==
    "The sensor is outside (or at the limit) of the model atmosphere but looks in the wrong direction."

BelowMaxToa ==
    "The sensor is horizontally outside (or at the limit) of the model atmosphere, but is at a radius smaller than the maximum value of the top-of-the-atmosphere radii."

BelowTheSurface == "The ppath starting point is placed below the surface."

\* 2D, sensor inside the atmosphere, at the latitude grid position gp_lat
Inside2D(p1, gp_lat, r_e, z_s) ==
    IF BelowSurface(At(rte_pos, 0), z_s) THEN Thrown(BelowTheSurface, p1)
    ELSE Ok(InCloudbox(OnSurface(
              PointAtSensor(p1, QAdd(r_e, At(rte_pos, 0)),
                  gridpos_check_fd(rte_pos2gridpos_p(At(rte_pos, 0), gp_lat, gp_lat)),
                  gridpos_check_fd(gp_lat), UndefGP),
              /\ QLe(At(rte_pos, 0), z_s)
              /\ is_los_downwards(At(rte_los, 0),
                    plevel_angletilt(QAdd(r_e, z_s),
                       plevel_slope_2d(zsrow, gp_lat, At(rte_los, 0)))))))

\* 2D, sensor outside the atmosphere at the radius r_p
Outside2D(p1, islatin, lat, r_p, ppc, r_toa_max) ==
    LET llat == nelem(lat_grid) - 1
        za   == At(rte_los, 0)
    IN  IF \/ QLe(lat, At(lat_grid, 0)) /\ ALe(za, 0)
           \/ QLe(At(lat_grid, llat), lat) /\ AGe(za, 0)
        THEN Thrown(WrongDirection2D, p1)
        ELSE IF HorizontallyOutside2D(islatin, r_p, r_toa_max)
        THEN Thrown(BelowMaxToa, OutsideSensor(p1, ppc))
        ELSE CASE ALe(AAbs(za), 90) \/ QLe(r_toa_max, ppc) ->
                    Ok(InSpace(OutsideSensor(p1, ppc),
                               <<At(rte_pos, 0), At(rte_pos, 1)>>, r_p, <<za>>))

\* the largest radius of the top of the atmosphere
ToaMax ==
    LET lp == nelem(z_field) - 1
    IN  QMax({QAdd(refell2r(At(lat_grid, i)), zf(lp, i, j)) :
                i \in 0..(nelem(lat_grid) - 1),
                j \in 0..(Max(1, nelem(lon_grid)) - 1)})

start_stepping_2d ==
    LET lp      == nelem(z_field) - 1
        llat    == nelem(lat_grid) - 1
        lat     == Deg(At(rte_pos, 1))
        islatin == QLt(At(lat_grid, 0), lat) /\ QLt(lat, At(lat_grid, llat))
        r_e     == IF islatin THEN refell2d(gridpos(lat_grid, lat)) ELSE refell2r(lat)
        p1      == EndAtSensor(ppath_init_structure(2, 1),
                               <<At(rte_pos, 0), At(rte_pos, 1)>>, <<At(rte_los, 0)>>)
    IN  IF islatin /\ QLt(At(rte_pos, 0), interp(zrow(lp), gridpos(lat_grid, lat)))
        THEN Inside2D(p1, gridpos(lat_grid, lat), r_e,
                      interp(zsrow, gridpos(lat_grid, lat)))
        ELSE Outside2D(p1, islatin, lat, QAdd(r_e, At(rte_pos, 0)),
                       geometrical_ppc(QAdd(r_e, At(rte_pos, 0)), At(rte_los, 0)),
                       ToaMax)

\* the linear slope term c1 of plevel_slope_3d: 0 when the four corners of
\* the grid cell have the same radius (the model surfaces of 3D are level)
plevel_slope_3d(z_surf, gp_lat, gp_lon, aa) ==
    LET ilat == gridpos2gridrange(gp_lat, AGe(AAbs(aa), 0))
        ilon == gridpos2gridrange(gp_lon, AGe(aa, 0))
        r15  == QAdd(refell2r(At(lat_grid, ilat)), At(At(z_surf, ilat), ilon))
        r35  == QAdd(refell2r(At(lat_grid, ilat + 1)), At(At(z_surf, ilat + 1), ilon))
        r36  == QAdd(refell2r(At(lat_grid, ilat + 1)), At(At(z_surf, ilat + 1), ilon + 1))
        r16  == QAdd(refell2r(At(lat_grid, ilat)), At(At(z_surf, ilat), ilon + 1))
    IN  CASE r15 = r35 /\ r15 = r36 /\ r15 = r16 -> I(0)

WrongDirectionLat ==
    "The sensor is north or south (or at the limit) of the model atmosphere but looks in the wrong direction."

WrongDirectionLon ==
    "The sensor is east or west (or at the limit) of the model atmosphere but looks in the wrong direction."

\* 3D, sensor inside the atmosphere; gp_lon is found for the resolved
\* longitude and gp_lon0 for the longitude of rte_pos
Inside3D(p1, gp_lat, gp_lon, gp_lon0, r_e, z_s) ==
    IF BelowSurface(At(rte_pos, 0), z_s) THEN Thrown(BelowTheSurface, p1)
    ELSE Ok(InCloudbox(OnSurface(
              PointAtSensor(p1, QAdd(r_e, At(rte_pos, 0)),
                  gridpos_check_fd(rte_pos2gridpos_p(At(rte_pos, 0), gp_lat, gp_lon0)),
                  gridpos_check_fd(gp_lat), gridpos_check_fd(gp_lon0)),
              /\ QLe(At(rte_pos, 0), z_s)
              /\ is_los_downwards(At(rte_los, 0),
                    plevel_angletilt(QAdd(r_e, z_s),
                       plevel_slope_3d(z_surface, gp_lat, gp_lon, At(rte_los, 1)))))))

\* 3D, sensor outside the atmosphere at the radius r_p
Outside3D(p1, lat, lon2use, r_p, ppc, r_toa_max) ==
    LET llat == nelem(lat_grid) - 1
        llon == nelem(lon_grid) - 1
        za   == At(rte_los, 0)
        aa   == At(rte_los, 1)
    IN  IF \/ QLe(lat, At(lat_grid, 0)) /\ AGe(AAbs(aa), 90)
           \/ QLe(At(lat_grid, llat), lat) /\ ALe(AAbs(aa), 90)
        THEN Thrown(WrongDirectionLat, p1)
        ELSE IF \/ QLe(lon2use, At(lon_grid, 0)) /\ ALt(aa, 0)
                \/ QLe(At(lon_grid, llon), lon2use) /\ AGt(aa, 0)
        THEN Thrown(WrongDirectionLon, p1)
        ELSE IF QLe(r_p, r_toa_max)
        THEN Thrown(BelowMaxToa, OutsideSensor(p1, ppc))
        ELSE \* pos(0,1) is written twice and pos(0,2) is left as allocated
             CASE ALe(za, 90) \/ QLe(r_toa_max, ppc) ->
                    Ok(InSpace(OutsideSensor(p1, ppc),
                               <<At(rte_pos, 0), A(lon2use[1]), UndefA>>,
                               r_p, <<za, aa>>))

start_stepping_3d ==
    LET lp      == nelem(z_field) - 1
        llat    == nelem(lat_grid) - 1
        llon    == nelem(lon_grid) - 1
        lon2use == resolve_lon(Deg(At(rte_pos, 2)), At(lon_grid, 0), At(lon_grid, llon))
        lat     == Deg(At(rte_pos, 1))
        islatlonin == /\ QLt(At(lat_grid, 0), lat) /\ QLt(lat, At(lat_grid, llat))
                      /\ QLt(At(lon_grid, 0), lon2use)
                      /\ QLt(lon2use, At(lon_grid, llon))
        r_e     == IF islatlonin THEN refell2d(gridpos(lat_grid, lat)) ELSE refell2r(lat)
        p1      == EndAtSensor(ppath_init_structure(3, 1),
                               <<At(rte_pos, 0), At(rte_pos, 1), A(lon2use[1])>>,
                               <<At(rte_los, 0), At(rte_los, 1)>>)
    IN  IF /\ islatlonin
           /\ QLt(At(rte_pos, 0), interp2(At(z_field, lp), gridpos(lat_grid, lat),
                                          gridpos(lon_grid, lon2use)))
        THEN Inside3D(p1, gridpos(lat_grid, lat), gridpos(lon_grid, lon2use),
                      gridpos(lon_grid, Deg(At(rte_pos, 2))), r_e,
                      interp2(z_surface, gridpos(lat_grid, lat),
                              gridpos(lon_grid, lon2use)))
        ELSE Outside3D(p1, lat, lon2use, QAdd(r_e, At(rte_pos, 0)),
                       geometrical_ppc(QAdd(r_e, At(rte_pos, 0)), At(rte_los, 0)),
                       ToaMax)

ppath_start_stepping ==
    CASE atmosphere_dim = 1 -> start_stepping_1d
      [] atmosphere_dim = 2 -> start_stepping_2d
      [] atmosphere_dim = 3 -> start_stepping_3d

(***************************************************************************)
(* Input checks                                                            *)
(***************************************************************************)
\* chk_rte_pos and chk_rte_los: the ranges of the sensor position and
\* line-of-sight; "" if the input is accepted
chk_rte_pos ==
    IF atmosphere_dim >= 2 /\ (ALt(At(rte_pos, 1), -90) \/ AGt(At(rte_pos, 1), 90))
    THEN "The latitude in *rte_pos* must be in the range [-90,90]."
    ELSE IF atmosphere_dim = 3
            /\ (ALt(At(rte_pos, 2), -360) \/ AGt(At(rte_pos, 2), 360))
    THEN "The longitude in *rte_pos* must be in the range [-360,360]."
    ELSE ""

chk_rte_los ==
    IF atmosphere_dim = 2 /\ (ALt(At(rte_los, 0), -180) \/ AGt(At(rte_los, 0), 180))
    THEN "The zenith angle of *rte_los* must be in the range [-180,180]."
    ELSE IF atmosphere_dim # 2 /\ (ALt(At(rte_los, 0), 0) \/ AGt(At(rte_los, 0), 180))
    THEN "The zenith angle of *rte_los* must be in the range [0,180]."
    ELSE IF atmosphere_dim = 3
            /\ (ALt(At(rte_los, 1), -180) \/ AGt(At(rte_los, 1), 180))
    THEN "The azimuth angle of *rte_los* must be in the range [-180,180]."
    ELSE ""

(***************************************************************************)
(* Geometrical propagation path steps, 1D                                  *)
(*                                                                         *)
(* Lengths along a geometrical path are square roots, sqrt(r*r - ppc*ppc). *)
(* Sqrt is the exact root of the square of a rational and of nothing else: *)
(* the calls with geometrical steps are chosen such that all radii and the *)
(* path constant form Pythagorean triples.                                 *)
(***************************************************************************)
\* the whole number k in lo..hi with k*k = n, -1 if there is none
RECURSIVE SqrtBetween(_, _, _)
SqrtBetween(n, lo, hi) ==
    IF lo > hi THEN -1
    ELSE IF ((lo + hi) \div 2) * ((lo + hi) \div 2) = n THEN (lo + hi) \div 2
    ELSE IF ((lo + hi) \div 2) * ((lo + hi) \div 2) < n
    THEN SqrtBetween(n, (lo + hi) \div 2 + 1, hi)
    ELSE SqrtBetween(n, lo, (lo + hi) \div 2 - 1)

\* the root of the whole number n >= 0, -1 if n is not a square; the squares
\* of the numbers up to 46340 are the ones TLC represents
IntSqrt(n) == SqrtBetween(n, 0, IF n < 46340 THEN n ELSE 46340)

IsSquare(q) == IntSqrt(q[1]) >= 0 /\ IntSqrt(q[2]) >= 1

Sqrt(q) == CASE IsSquare(q) -> Q(IntSqrt(q[1]), IntSqrt(q[2]))

\* ceil of a rational q >= 0
Ceil(q) == (q[1] + q[2] - 1) \div q[2]

\* sign(x) of a rational: -1, 0 or 1
sign(x) == IF x[1] < 0 THEN -1 ELSE IF x[1] = 0 THEN 0 ELSE 1

\* sign(za) of an angle
signA(za) == IF ALt(za, 0) THEN -1 ELSE IF za = A(0) THEN 0 ELSE 1

\* q < sin(ANGTOL) for a rational q > 0, with ANGTOL = 1e-6 degrees:
\* 1 / sin(1e-6 degrees) is 57295780, to eight digits
BelowSinAngtol(q) == q[1] <= (q[2] - 1) \div 57295780

\* abs(za) < ANGTOL
NearZenith(za) ==
    LET a == AAbs(za)
    IN  IF a.k = 0 THEN a.b <= 0
        ELSE IF a.k = 1 THEN a.b < 0 \/ (a.b = 0 /\ BelowSinAngtol(a.q))
        ELSE a.b <= 0

\* abs(za) > 180-ANGTOL
NearNadir(za) ==
    LET a == AAbs(za)
    IN  IF a.k = 0 THEN a.b >= 180
        ELSE IF a.k = 1 THEN a.b >= 180
        ELSE a.b > 180 \/ (a.b = 180 /\ BelowSinAngtol(a.q))

\* abs(za) < ANGTOL || abs(za) > 180-ANGTOL
NearVertical(za) == NearZenith(za) \/ NearNadir(za)

geompath_l_at_r(ppc, r) ==
    IF QLt(ppc, r) THEN Sqrt(QSub(QMul(r, r), QMul(ppc, ppc))) ELSE I(0)

geompath_r_at_l(ppc, l) == Sqrt(QAdd(QMul(l, l), QMul(ppc, ppc)))

\* a changed count: the stretch is never divided
GeomPartsOne(l1, l2, lmax) == 1

\* the number of parts the stretch from l1 to l2 is divided into
GeomParts(l1, l2, lmax) ==
    IF QLt(I(0), lmax) THEN Max(1, Ceil(QDiv(QAbs(QSub(l2, l1)), lmax))) ELSE 1

\* radius and zenith angle of point i of n + 1, at the length l from the
\* tangent point; the last point has exactly the radius r2
GeomPointAt(ppc, za1, r2, l, i, n) ==
    LET r == IF i = n THEN r2 ELSE geompath_r_at_l(ppc, l)
    IN  [r  |-> r,
         za |-> geompath_za_at_r(ppc, A(signA(za1) * (90 - sign(l) * 10)), r)]

\* the points from l1 to l2 in n parts
GeomPoints(ppc, r1, lat1, za1, r2, l1, l2, n) ==
    LET lstep == QDiv(QSub(l2, l1), I(n))
        pt(i) == GeomPointAt(ppc, za1, r2, QAdd(l1, QMul(lstep, I(i))), i, n)
        za(i) == IF i = 0 \/ NearVertical(za1) THEN za1 ELSE pt(i).za
    IN  [r     |-> [j \in 1..(n + 1) |-> IF j = 1 THEN r1 ELSE pt(j - 1).r],
         za    |-> [j \in 1..(n + 1) |-> za(j - 1)],
         lat   |-> [j \in 1..(n + 1) |->
                      IF j = 1 THEN lat1
                      ELSE geompath_lat_at_za(za1, lat1, za(j - 1))],
         lstep |-> QAbs(lstep)]

\* the signed length of the second point, for the signed length l1 of the first
GeomL2(ppc, r2, l1, tanpoint) ==
    LET l2 == geompath_l_at_r(ppc, r2)
        s  == (IF QLt(l1, I(0)) THEN -1 ELSE 1) * (IF tanpoint THEN -1 ELSE 1)
    IN  QMul(I(s), l2)

GeomL1(ppc, r1, za1) ==
    IF AGt(AAbs(za1), 90) THEN QSub(I(0), geompath_l_at_r(ppc, r1))
    ELSE geompath_l_at_r(ppc, r1)

GeomFromL1(ppc, r1, lat1, za1, r2, tanpoint, lmax, l1) ==
    \* l2 is bound once
    LET F(l2) == GeomPoints(ppc, r1, lat1, za1, r2, l1, l2,
                            GeomParts(l1, l2, lmax))
    IN  CHOOSE g \in {F(l2) : l2 \in {GeomL2(ppc, r2, l1, tanpoint)}} : TRUE

geompath_from_r1_to_r2(ppc, r1, lat1, za1, r2, tanpoint, lmax) ==
    CHOOSE g \in {GeomFromL1(ppc, r1, lat1, za1, r2, tanpoint, lmax, l1) :
                     l1 \in {GeomL1(ppc, r1, za1)}} : TRUE

\* a changed choice: the lower level is taken before the surface is tested,
\* also when the surface is at or above it
GridRangeEndLevelFirst(za_start, ppc, ra, rb, rsurface) ==
    IF ALe(za_start, 90)
    THEN [endface |-> 4, r_end |-> rb, tanpoint |-> FALSE]
    ELSE IF QLt(ppc, ra)
    THEN [endface |-> 2, r_end |-> ra, tanpoint |-> FALSE]
    ELSE IF QLt(ppc, rsurface)
    THEN [endface |-> 7, r_end |-> rsurface, tanpoint |-> FALSE]
    ELSE [endface |-> 4, r_end |-> rb, tanpoint |-> TRUE]

\* do_gridrange_1d: the face of the grid range [ra, rb] where the step ends,
\* the radius of the end point and whether a tangent point is passed
GridRangeEnd(za_start, ppc, ra, rb, rsurface) ==
    IF ALe(za_start, 90)
    THEN [endface |-> 4, r_end |-> rb, tanpoint |-> FALSE]
    ELSE IF QLt(rsurface, ra) /\ QLt(ppc, ra)
    THEN [endface |-> 2, r_end |-> ra, tanpoint |-> FALSE]
    ELSE IF QLt(ppc, rsurface)
    THEN [endface |-> 7, r_end |-> rsurface, tanpoint |-> FALSE]
    ELSE [endface |-> 4, r_end |-> rb, tanpoint |-> TRUE]

do_gridrange_1d(r_start0, lat_start, za_start, ppc, lmax, ra, rb, rsurface) ==
    LET r_start == IF QLt(r_start0, ra) THEN ra
                   ELSE IF QLt(rb, r_start0) THEN rb ELSE r_start0
        e == GridRangeEnd(za_start, ppc, ra, rb, rsurface)
        g == geompath_from_r1_to_r2(ppc, r_start, lat_start, za_start,
                                    e.r_end, e.tanpoint, lmax)
    IN  [r_v |-> g.r, lat_v |-> g.lat, za_v |-> g.za, lstep |-> g.lstep,
         endface |-> e.endface]

ppath_start_1d(p) ==
    LET imax == p.np - 1
    IN  [r_start   |-> At(p.r, imax),
         lat_start |-> At(At(p.pos, imax), 1),
         za_start  |-> At(At(p.los, imax), 0),
         ip        |-> gridpos2gridrange(At(p.gp_p, imax),
                                         ALe(At(At(p.los, imax), 0), 90))]

\* a changed end: the surface is an end of the step as a pressure level is,
\* the background is not set
EndOfStepLevelOnly(p, endface) ==
    IF endface <= 4
    THEN [p EXCEPT !.gp_p = Put(p.gp_p, p.np - 1,
                                gridpos_force_end_fd(At(p.gp_p, p.np - 1),
                                                     nelem(z_field)))]
    ELSE p

\* ppath_end_1d, its last part: the end point is the surface, or it is on
\* top of a pressure level
EndOfStep(p, endface) ==
    IF endface = 7 THEN ppath_set_background(p, 2)
    ELSE IF endface <= 4
    THEN [p EXCEPT !.gp_p = Put(p.gp_p, p.np - 1,
                                gridpos_force_end_fd(At(p.gp_p, p.np - 1),
                                                     nelem(z_field)))]
    ELSE p

ppath_end_1d(r_v, lat_v, za_v, lstep, n_v, ng_v, ip, endface, ppc) ==
    LET n  == nelem(r_v)
        r1 == QAdd(At(refellipsoid, 0), At(zcol1d, ip))
        dr == QSub(At(zcol1d, ip + 1), At(zcol1d, ip))
        gp(i) == gridpos_check_fd(GP(ip, QDiv(QSub(At(r_v, i), r1), dr)))
        p  == [ppath_init_structure(1, n) EXCEPT
                 !.constant = ppc,
                 !.r      = r_v,
                 !.pos    = [j \in 1..n |->
                               <<QSub(r_v[j], At(refellipsoid, 0)), lat_v[j]>>],
                 !.los    = [j \in 1..n |-> <<za_v[j]>>],
                 !.nreal  = n_v,
                 !.ngroup = ng_v,
                 !.gp_p   = [j \in 1..n |-> gp(j - 1)],
                 !.lstep  = lstep]
    IN  EndOfStep(p, endface)

\* the step from the points found in the grid range
GeomStep1D(g, ip, ppc) ==
    ppath_end_1d(g.r_v, g.lat_v, g.za_v, Fill(nelem(g.r_v) - 1, g.lstep),
                 Fill(nelem(g.r_v), I(1)), Fill(nelem(g.r_v), I(1)),
                 ip, g.endface, ppc)

\* the step from the start point s, for the path constant ppc
GeomStepFrom1D(s, ppc, lmax) ==
    CHOOSE x \in {GeomStep1D(g, s.ip, ppc) :
                     g \in {do_gridrange_1d(s.r_start, s.lat_start, s.za_start,
                                             ppc, lmax,
                                             QAdd(At(refellipsoid, 0), At(zcol1d, s.ip)),
                                             QAdd(At(refellipsoid, 0), At(zcol1d, s.ip + 1)),
                                             QAdd(At(refellipsoid, 0), zs(0, 0)))}} : TRUE

\* a changed constant: calculated anew at the start of every step, from the
\* radius and the whole degrees of the zenith angle
GeomConstantAnew(p, r_start, za_start) ==
    geometrical_ppc(r_start, A(za_start.b))

\* the path constant of a step: calculated at the first call, kept afterwards
GeomConstant(p, r_start, za_start) ==
    IF QLt(p.constant, I(0)) THEN geometrical_ppc(r_start, za_start)
    ELSE p.constant

ppath_step_geom_1d(p, lmax) ==
    CHOOSE x \in {GeomStepFrom1D(s, GeomConstant(p, s.r_start, s.za_start), lmax) :
                     s \in {ppath_start_1d(p)}} : TRUE

(***************************************************************************)
(* Geometrical propagation path steps, 2D: zenith and nadir lines-of-sight *)
(***************************************************************************)
rsurf_at_lat(lat1, lat3, r1, r3, lat) ==
    QAdd(r1, QDiv(QMul(QSub(lat, lat1), QSub(r3, r1)), QSub(lat3, lat1)))

\* plevel_slope_2d, from the radii at two latitudes
plevel_slope_2d_r(lat1, lat2, r1, r2) == QDiv(QSub(r2, r1), QSub(lat2, lat1))

\* x >= 1e-9, for a rational x = x[1] / x[2]
NotTiny(x) == x[1] >= (x[2] + 999999999) \div 1000000000

Tiny == Q(1, 1000000000)

\* max(1e-9, x)
AtLeastTiny(x) == IF NotTiny(x) THEN x ELSE Tiny

\* no crossing: r = R_NOT_FOUND, l = L_NOT_FOUND (a very large value)
NotFound == [r |-> I(-1), lat |-> Undef, l |-> Undef]

\* lt <= l and lt < l, for lengths that may be L_NOT_FOUND
LLe(lt, l) ==
    \/ l = Undef
    \/ lt # Undef /\ (IF lt = Tiny THEN NotTiny(l)
                       ELSE IF l = Tiny THEN ~NotTiny(lt)
                       ELSE QLe(lt, l))

LLt(lt, l) ==
    /\ lt # Undef
    /\ \/ l = Undef
       \/ (IF lt = Tiny THEN l # Tiny /\ NotTiny(l)
           ELSE IF l = Tiny THEN ~NotTiny(lt)
           ELSE QLt(lt, l))

\* the crossing of a zenith or nadir line-of-sight with a pressure level or
\* the surface; the general case is not part of this model
plevel_crossing_2d(r_start0, lat_start, za_start, ppc, lat1, lat3, r1, r3, above) ==
    CASE NearZenith(za_start) ->
           IF above THEN NotFound
           ELSE [r   |-> rsurf_at_lat(lat1, lat3, r1, r3, lat_start),
                 lat |-> lat_start,
                 l   |-> AtLeastTiny(QSub(rsurf_at_lat(lat1, lat3, r1, r3, lat_start),
                                          r_start0))]
      [] ~NearZenith(za_start) /\ NearNadir(za_start) ->
           IF above
           THEN [r   |-> rsurf_at_lat(lat1, lat3, r1, r3, lat_start),
                 lat |-> lat_start,
                 l   |-> AtLeastTiny(QSub(r_start0,
                                          rsurf_at_lat(lat1, lat3, r1, r3, lat_start)))]
           ELSE NotFound

\* do_gridcell_2d: the end of the step after the test of the lower pressure
\* level, of the surface and of the upper pressure level
GridcellLower(x) ==
    [endface |-> IF QLt(I(0), x.r) THEN 2 ELSE 0, r |-> x.r, lat |-> x.lat, l |-> x.l]

GridcellSurface(e, x, tested) ==
    IF tested /\ QLt(I(0), x.r) /\ LLe(x.l, e.l)
    THEN [endface |-> 7, r |-> x.r, lat |-> x.lat, l |-> x.l]
    ELSE e

GridcellUpper(e, x) ==
    IF QLt(I(0), x.r) /\ LLt(x.l, e.l)
    THEN [endface |-> 4, r |-> x.r, lat |-> x.lat, l |-> e.l]
    ELSE e

GridcellEnd(r_start, lat_start, za_start, ppc, lat1, lat3, r1a, r3a, r3b, r1b, rsurface1, rsurface3) ==
    GridcellUpper(
        GridcellSurface(
            GridcellLower(plevel_crossing_2d(r_start, lat_start, za_start, ppc,
                                             lat1, lat3, r1a, r3a, TRUE)),
            plevel_crossing_2d(r_start, lat_start, za_start, ppc,
                               lat1, lat3, rsurface1, rsurface3, TRUE),
            QLe(r1a, rsurface1) \/ QLe(r3a, rsurface3)),
        plevel_crossing_2d(r_start, lat_start, za_start, ppc,
                           lat1, lat3, r1b, r3b, FALSE))

\* a tangent point inside the grid cell
GridcellTanpoint(lat_start, za_start, lat) ==
    /\ AGt(AAbs(za_start), 90)
    /\ QLt(QSub(Deg(AAbs(za_start)), QAbs(QSub(lat_start, lat))), I(90))

\* a zenith or nadir line-of-sight ends at a pressure level or the surface,
\* not at a latitude end face (r > 0)
do_gridcell_2d(r_start, lat_start, za_start, ppc, lmax, lat1, lat3, r1a, r3a, r3b, r1b, rsurface1, rsurface3) ==
    LET e == GridcellEnd(r_start, Deg(lat_start), za_start, ppc, lat1, lat3,
                         r1a, r3a, r3b, r1b, rsurface1, rsurface3)
        g == geompath_from_r1_to_r2(ppc, r_start, lat_start, za_start, e.r,
                                    GridcellTanpoint(Deg(lat_start), za_start, e.lat),
                                    lmax)
    IN  CASE QLt(I(0), e.r) ->
               [r_v |-> g.r, lat_v |-> g.lat, za_v |-> g.za, lstep |-> g.lstep,
                endface |-> e.endface]

\* ppath_start_2d: the pressure grid range of the step, one range down or up
\* for a start point on a pressure level the line-of-sight leaves the range
\* [ip, ip + 1] at
StartIp(gp, ilat, ip, r_start, za_start) ==
    LET lat1 == At(lat_grid, ilat)
        lat3 == At(lat_grid, ilat + 1)
        r(i, j) == QAdd(refell2r(At(lat_grid, j)), zf(i, j, 0))
        down == /\ is_gridpos_at_index_i(gp, ip)
                /\ is_los_downwards(za_start,
                       plevel_angletilt(r_start,
                           plevel_slope_2d_r(lat1, lat3, r(ip, ilat), r(ip, ilat + 1))))
        up   == /\ ~is_gridpos_at_index_i(gp, ip)
                /\ is_gridpos_at_index_i(gp, ip + 1)
                /\ ~is_los_downwards(za_start,
                       plevel_angletilt(r_start,
                           plevel_slope_2d_r(lat1, lat3, r(ip + 1, ilat),
                                             r(ip + 1, ilat + 1))))
    IN  IF down THEN ip - 1 ELSE IF up THEN ip + 1 ELSE ip

\* ppath_start_2d: the grid cell [ilat, ilat + 1] x [ip, ip + 1] of the step
\* and the radii of its corners
StartCell(p, gp, ilat, ip) ==
    LET imax == p.np - 1
        lat1 == At(lat_grid, ilat)
        lat3 == At(lat_grid, ilat + 1)
        re1  == refell2r(lat1)
        re3  == refell2r(lat3)
        r(i, j) == QAdd(IF j = ilat THEN re1 ELSE re3, zf(i, j, 0))
        ip2  == StartIp(gp, ilat, ip, At(p.r, imax), At(At(p.los, imax), 0))
    IN  [r_start   |-> At(p.r, imax),
         lat_start |-> At(At(p.pos, imax), 1),
         za_start  |-> At(At(p.los, imax), 0),
         ip |-> ip2, ilat |-> ilat, lat1 |-> lat1, lat3 |-> lat3,
         r1a |-> r(ip2, ilat), r3a |-> r(ip2, ilat + 1),
         r3b |-> r(ip2 + 1, ilat + 1), r1b |-> r(ip2 + 1, ilat),
         rsurface1 |-> QAdd(re1, zs(ilat, 0)),
         rsurface3 |-> QAdd(re3, zs(ilat + 1, 0))]

\* the pressure grid position of the start point: forced to a grid point if
\* the start point is within RTOL of the lower or upper pressure level
StartGp(p, ilat, ip) ==
    LET imax == p.np - 1
        lat  == Deg(At(At(p.pos, imax), 1))
        lat1 == At(lat_grid, ilat)
        lat3 == At(lat_grid, ilat + 1)
        rlow == rsurf_at_lat(lat1, lat3, QAdd(refell2r(lat1), zf(ip, ilat, 0)),
                             QAdd(refell2r(lat3), zf(ip, ilat + 1, 0)), lat)
        rupp == rsurf_at_lat(lat1, lat3, QAdd(refell2r(lat1), zf(ip + 1, ilat, 0)),
                             QAdd(refell2r(lat3), zf(ip + 1, ilat + 1, 0)), lat)
    IN  IF \/ QLt(QAbs(QSub(At(p.r, imax), rlow)), RTOL)
           \/ QLt(QAbs(QSub(At(p.r, imax), rupp)), RTOL)
        THEN gridpos_force_end_fd(At(p.gp_p, imax), nelem(z_field))
        ELSE At(p.gp_p, imax)

ppath_start_2d(p) ==
    LET imax == p.np - 1
        ilat == gridpos2gridrange(At(p.gp_lat, imax), AGe(At(At(p.los, imax), 0), 0))
        ip   == gridpos2gridrange(At(p.gp_p, imax),
                                  ALe(AAbs(At(At(p.los, imax), 0)), 90))
    IN  StartCell(p, StartGp(p, ilat, ip), ilat, ip)

\* ppath_end_2d: the grid positions and the altitude of the point (r, lat)
\* in the grid cell
EndPoint2D(r, lat, ip, ilat) ==
    LET w    == QDiv(QSub(lat, At(lat_grid, ilat)),
                     QSub(At(lat_grid, ilat + 1), At(lat_grid, ilat)))
        face(i) == [r1 |-> QAdd(refell2r(At(lat_grid, ilat)), zf(i, ilat, 0)),
                    dr |-> QSub(QAdd(refell2r(At(lat_grid, ilat + 1)), zf(i, ilat + 1, 0)),
                                QAdd(refell2r(At(lat_grid, ilat)), zf(i, ilat, 0))),
                    z1 |-> zf(i, ilat, 0),
                    dz |-> QSub(zf(i, ilat + 1, 0), zf(i, ilat, 0))]
        rlow == QAdd(face(ip).r1, QMul(w, face(ip).dr))
        rupp == QAdd(face(ip + 1).r1, QMul(w, face(ip + 1).dr))
        zlow == QAdd(face(ip).z1, QMul(w, face(ip).dz))
        zupp == QAdd(face(ip + 1).z1, QMul(w, face(ip + 1).dz))
        gp   == gridpos_check_fd(GP(ip, QDiv(QSub(r, rlow), QSub(rupp, rlow))))
    IN  [gp_p   |-> gp,
         z      |-> QAdd(zlow, QMul(At(gp.fd, 0), QSub(zupp, zlow))),
         gp_lat |-> gridpos_check_fd(GP(ilat, w))]

\* ppath_end_2d, its last part: the tasks of the end face
EndOfStep2D(p, endface) ==
    LET imax == p.np - 1
        q    == IF endface = 7 THEN ppath_set_background(p, 2) ELSE p
    IN  IF endface = 1 \/ endface = 3
        THEN [q EXCEPT !.gp_lat = Put(q.gp_lat, imax,
                                      gridpos_force_end_fd(At(q.gp_lat, imax),
                                                           nelem(lat_grid)))]
        ELSE IF endface = 2 \/ endface = 4
        THEN [q EXCEPT !.gp_p = Put(q.gp_p, imax,
                                    gridpos_force_end_fd(At(q.gp_p, imax),
                                                         nelem(z_field)))]
        ELSE q

ppath_end_2d(r_v, lat_v, za_v, lstep, n_v, ng_v, ip, ilat, endface, ppc) ==
    LET n  == nelem(r_v)
        e(j) == EndPoint2D(r_v[j], Deg(lat_v[j]), ip, ilat)
        p  == [ppath_init_structure(2, n) EXCEPT
                 !.constant = ppc,
                 !.r      = r_v,
                 !.pos    = [j \in 1..n |-> <<e(j).z, lat_v[j]>>],
                 !.los    = [j \in 1..n |-> <<za_v[j]>>],
                 !.nreal  = n_v,
                 !.ngroup = ng_v,
                 !.gp_p   = [j \in 1..n |-> e(j).gp_p],
                 !.gp_lat = [j \in 1..n |-> e(j).gp_lat],
                 !.lstep  = lstep]
    IN  EndOfStep2D(p, endface)

\* the step from the points found in the grid cell
GeomStep2D(g, s, ppc) ==
    ppath_end_2d(g.r_v, g.lat_v, g.za_v, Fill(nelem(g.r_v) - 1, g.lstep),
                 Fill(nelem(g.r_v), I(1)), Fill(nelem(g.r_v), I(1)),
                 s.ip, s.ilat, g.endface, ppc)

\* the step from the start point and grid cell s, for the path constant ppc
GeomStepFrom2D(s, ppc, lmax) ==
    CHOOSE x \in {GeomStep2D(g, s, ppc) :
                     g \in {do_gridcell_2d(s.r_start, s.lat_start, s.za_start,
                                            ppc, lmax, s.lat1, s.lat3,
                                            s.r1a, s.r3a, s.r3b, s.r1b,
                                            s.rsurface1, s.rsurface3)}} : TRUE

ppath_step_geom_2d(p, lmax) ==
    CHOOSE x \in {GeomStepFrom2D(s, GeomConstant(p, s.r_start, s.za_start), lmax) :
                     s \in {ppath_start_2d(p)}} : TRUE

\* ppath_stepGeometric: the geometrical step for the dimension of the atmosphere
ppath_step_geom(p, lmax) ==
    CASE atmosphere_dim = 1 -> ppath_step_geom_1d(p, lmax)
      [] atmosphere_dim = 2 -> ppath_step_geom_2d(p, lmax)

(***************************************************************************)
(* The propagation path step agenda                                        *)
(***************************************************************************)
\* bounds of the model: the number of steps a freely chosen agenda takes
\* and the number of points of one of its steps
MaxSteps == 2

MaxStepPts == 3

\* the number of geometrical steps that are followed: more than any
\* geometrical path of the calls that are checked takes
MaxGeomSteps == 8

\* refractive indices the agenda gives point j > 0 of step k: the values
\* differ from point to point; the first point of a step is the last point
\* of the step before and has its values
tag(k, j) == 10 * k + j

nreal_at(t) == Q(1000 + t, 1000)

ngroup_at(t) == Q(500 + t, 500)

\* the vector of the grid restored at a grid position
grid_at(grid, gp) == interp(grid, gp)

\* altitude of the point with the given grid positions
z_at(gp_p, gp_lat, gp_lon) ==
    LET z(ip) == CASE atmosphere_dim = 1 -> zf(ip, 0, 0)
                   [] atmosphere_dim = 2 -> interp(zrow(ip), gp_lat)
                   [] atmosphere_dim = 3 -> interp2(At(z_field, ip), gp_lat, gp_lon)
    IN  QAdd(QMul(At(gp_p.fd, 1), z(gp_p.idx)), QMul(At(gp_p.fd, 0), z(gp_p.idx + 1)))

\* the last point of a Ppath, as the agenda reads it
LastPoint(p) ==
    LET i == p.np - 1
    IN  [pos |-> At(p.pos, i), los |-> At(p.los, i), r |-> At(p.r, i),
         gp_p |-> At(p.gp_p, i),
         gp_lat |-> IF p.dim >= 2 THEN At(p.gp_lat, i) ELSE UndefGP,
         gp_lon |-> IF p.dim = 3 THEN At(p.gp_lon, i) ELSE UndefGP]

\* the point at the grid positions of e and the altitude z, seen along the
\* line-of-sight los
PointAtZ(e, los, z) ==
    [pos |-> CASE atmosphere_dim = 1 -> <<z, A(0)>>
               [] atmosphere_dim = 2 ->
                    <<z, A(grid_at(lat_grid, e.gp_lat)[1])>>
               [] atmosphere_dim = 3 ->
                    <<z, A(grid_at(lat_grid, e.gp_lat)[1]),
                         A(grid_at(lon_grid, e.gp_lon)[1])>>,
     los |-> los, r |-> QAdd(At(refellipsoid, 0), z),
     gp_p |-> e.gp_p, gp_lat |-> e.gp_lat, gp_lon |-> e.gp_lon]

PointAt(e, los) == PointAtZ(e, los, z_at(e.gp_p, e.gp_lat, e.gp_lon))

\* a step of n points from the point first to the point last, as step number
\* k of the path; the k-th step has the lengths 10k, 10k+1, ...
StepBetween(prev, first, last, k, n, bg) ==
    [ppath_init_structure(atmosphere_dim, n) EXCEPT
       !.constant = IF QLt(prev.constant, I(0))
                    THEN geometrical_ppc(first.r, At(first.los, 0))
                    ELSE prev.constant,
       !.pos    = [j \in 1..n |-> IF j < n THEN first.pos ELSE last.pos],
       !.los    = [j \in 1..n |-> IF j < n THEN first.los ELSE last.los],
       !.r      = [j \in 1..n |-> IF j < n THEN first.r ELSE last.r],
       !.lstep  = [j \in 1..(n - 1) |-> I(10 * k + j - 1)],
       !.gp_p   = [j \in 1..n |-> IF j < n THEN first.gp_p ELSE last.gp_p],
       !.gp_lat = IF atmosphere_dim >= 2
                  THEN [j \in 1..n |-> IF j < n THEN first.gp_lat ELSE last.gp_lat]
                  ELSE <<>>,
       !.gp_lon = IF atmosphere_dim = 3
                  THEN [j \in 1..n |-> IF j < n THEN first.gp_lon ELSE last.gp_lon]
                  ELSE <<>>,
       !.nreal  = [j \in 1..n |->
                     IF j > 1 THEN nreal_at(tag(k, j - 1))
                     ELSE IF k = 1 THEN nreal_at(0)
                     ELSE At(prev.nreal, prev.np - 1)],
       !.ngroup = [j \in 1..n |->
                     IF j > 1 THEN ngroup_at(tag(k, j - 1))
                     ELSE IF k = 1 THEN ngroup_at(0)
                     ELSE At(prev.ngroup, prev.np - 1)],
       !.background = BackgroundName(bg)]

\* a step of n points from the last point of prev to the end e; all points
\* but the last are at the start of the step
AgendaStep(prev, k, n, e) ==
    StepBetween(prev, LastPoint(prev),
                PointAt(e, IF atmosphere_dim = 3
                           THEN <<At(At(prev.los, prev.np - 1), 0), A(e.aa)>>
                           ELSE At(prev.los, prev.np - 1)),
                k, n, e.bg)

\* ends of a step the freely chosen agenda picks from: grid positions,
\* background set by the step (0 or 2) and azimuth angle at the end (3D)
End(gp_p, gp_lat, gp_lon, aa, bg) ==
    [gp_p |-> gp_p, gp_lat |-> gp_lat, gp_lon |-> gp_lon, aa |-> aa, bg |-> bg]

GpMid == GP(0, Q(1, 2))

GpLevel == GP(nelem(z_field) - 2, I(0))

GpTop == GP(nelem(z_field) - 2, I(1))

HMid == GP(1, Q(1, 2))

HLow == GP(0, I(0))

HHigh(grid) == GP(nelem(grid) - 2, I(1))

\* the grid position of the surface at a horizontal position
GpSurf(gp_lat, gp_lon) ==
    CASE atmosphere_dim = 1 -> gridpos(zcol1d, zs(0, 0))
      [] atmosphere_dim = 2 ->
           rte_pos2gridpos_p(interp(zsrow, gp_lat), gp_lat, gp_lon)
      [] atmosphere_dim = 3 ->
           rte_pos2gridpos_p(interp2(z_surface, gp_lat, gp_lon), gp_lat, gp_lon)

EndChoices ==
    CASE atmosphere_dim = 1 ->
           {End(g, UndefGP, UndefGP, 0, 0) : g \in {GpMid, GpLevel, GpTop}}
           \cup {End(GpSurf(UndefGP, UndefGP), UndefGP, UndefGP, 0, 2),
                 End(GpTop, UndefGP, UndefGP, 0, 2)}
      [] atmosphere_dim = 2 ->
           {End(GpMid, h, UndefGP, 0, 0) : h \in {HMid, HLow, HHigh(lat_grid)}}
           \cup {End(GpTop, h, UndefGP, 0, 0) : h \in {HMid, HLow}}
           \cup {End(GpSurf(HMid, UndefGP), HMid, UndefGP, 0, 2)}
      [] atmosphere_dim = 3 ->
           {End(GpMid, h, HMid, 90, 0) : h \in {HMid, HLow, HHigh(lat_grid)}}
           \cup {End(GpMid, HMid, o, aa, 0) :
                   o \in {HLow, HHigh(lon_grid)}, aa \in {-90, 90}}
           \cup {End(GpTop, HMid, o, -90, 0) : o \in {HMid, HLow}}
           \cup {End(GpMid, HLow, HLow, -90, 0)}
           \cup {End(GpSurf(HMid, HMid), HMid, HMid, 90, 2)}

\* the agenda is ppath_stepGeometric ("geom", with the largest length lmax
\* between two points), or it picks each step freely ("free"), or takes steps of two
\* points that stay inside the lowest grid range and reaches the top of the
\* atmosphere with step number agenda.top ("slow", top = 0: never)
SlowEnd(k) ==
    End(IF k = agenda.top THEN GpTop ELSE GpMid, HMid, HMid, 90, 0)

\* inside the cloud box the agenda does not step beyond its limits
EndAllowed(e) ==
    ppath_inside_cloudbox_do =>
        /\ InLimits(fractional_gp(e.gp_p), 0)
        /\ atmosphere_dim >= 2 => InLimits(fractional_gp(e.gp_lat), 2)
        /\ atmosphere_dim = 3 => InLimits(fractional_gp(e.gp_lon), 4)

AgendaSteps(prev, k) ==
    IF agenda.kind = "geom" THEN {ppath_step_geom(prev, agenda.lmax)}
    ELSE IF agenda.kind = "free"
    THEN {AgendaStep(prev, k, n, e) :
            n \in {2, MaxStepPts}, e \in {x \in EndChoices : EndAllowed(x)}}
    ELSE {AgendaStep(prev, k, 2, SlowEnd(k))}

(***************************************************************************)
(* ppath_calc: the checks of a new step                                    *)
(***************************************************************************)
\* the largest number of steps, the iteration cap of ppath_calc
IterCap == 10000

\* a changed test: the cap is tested one step earlier
CapReached(i) == i >= IterCap

CapExceeded(i) == i > IterCap

TooManySteps == "10 000 path points have been reached. Is this an infinite loop?"

\* a changed count: the point shared with the step before is counted twice
CountAllPoints(total, n) == total + n

\* the total number of points after a step of n points
CountPoints(total, n) == total + n - 1

\* a changed test: the pressure level below the top is taken as the top
TopReachedBelow(gp) == is_gridpos_at_index_i(gp, nelem(z_field) - 2)

\* the top of the atmosphere is reached
TopReached(gp) == is_gridpos_at_index_i(gp, nelem(z_field) - 1)

\* the message of the error for a path that exits through an end face
EndFace(name) == "The path exits the atmosphere through the " \o name \o " end face."

\* a changed check: an exit through a latitude end face is not seen
NoLatEndFace(s) == ""

\* a changed check: only the lower latitude end face is seen in 2D
LatEndFaceLowerOnly(s) ==
    IF atmosphere_dim = 2 /\ is_gridpos_at_index_i(At(s.gp_lat, s.np - 1), 0)
    THEN EndFace("lower latitude") ELSE ""

\* latitude end faces, 2D and 3D: the error message, "" if none
LatEndFace(s) ==
    LET n        == s.np
        imax_lat == nelem(lat_grid) - 1
        gp       == At(s.gp_lat, n - 1)
    IN  CASE atmosphere_dim = 1 -> ""
          [] atmosphere_dim = 2 ->
               IF is_gridpos_at_index_i(gp, 0) THEN EndFace("lower latitude")
               ELSE IF is_gridpos_at_index_i(gp, imax_lat)
               THEN EndFace("upper latitude") ELSE ""
          [] atmosphere_dim = 3 ->
               IF QLt(I(-90), At(lat_grid, 0)) /\ is_gridpos_at_index_i(gp, 0)
               THEN EndFace("lower latitude")
               ELSE IF /\ QLt(At(lat_grid, imax_lat), I(90))
                       /\ is_gridpos_at_index_i(gp, imax_lat)
               THEN EndFace("upper latitude") ELSE ""

\* a changed shift: the longitude grid position is not determined anew
ShiftLonOnly(s, d) ==
    LET row == At(s.pos, s.np - 1)
    IN  [s EXCEPT !.pos = Put(s.pos, s.np - 1, Put(row, 2, AAdd(At(row, 2), A(d))))]

\* the end point with its longitude shifted by d degrees
ShiftLon(s, d) ==
    LET n   == s.np
        row == At(s.pos, n - 1)
        lon == AAdd(At(row, 2), A(d))
    IN  [s EXCEPT !.pos    = Put(s.pos, n - 1, Put(row, 2, lon)),
                  !.gp_lon = Put(s.gp_lon, n - 1, gridpos(lon_grid, Deg(lon)))]

\* longitude end faces, 3D: the longitude is shifted by 360 degrees if the
\* longitude grid covers 360 degrees, otherwise the path has left the atmosphere
LonEndFace(s) ==
    LET n        == s.np
        imax_lon == nelem(lon_grid) - 1
        gp       == At(s.gp_lon, n - 1)
        aa       == At(At(s.los, n - 1), 1)
        inlat    == ALt(AAbs(At(At(s.pos, n - 1), 1)), 90)
        covers   == QLe(I(360), QSub(At(lon_grid, imax_lon), At(lon_grid, 0)))
    IN  IF atmosphere_dim # 3 THEN Ok(s)
        ELSE IF is_gridpos_at_index_i(gp, 0) /\ ALt(aa, 0) /\ inlat THEN
            IF covers THEN Ok(ShiftLon(s, 360))
            ELSE Thrown(EndFace("lower longitude"), s)
        ELSE IF is_gridpos_at_index_i(gp, imax_lon) /\ AGt(aa, 0) /\ inlat THEN
            IF covers THEN Ok(ShiftLon(s, -360))
            ELSE Thrown(EndFace("upper longitude"), s)
        ELSE Ok(s)

\* the end point is inside the cloud box, in all dimensions
InsideCloudbox(s) ==
    LET n == s.np
    IN  /\ InLimits(fractional_gp(At(s.gp_p, n - 1)), 0)
        /\ atmosphere_dim >= 2 => InLimits(fractional_gp(At(s.gp_lat, n - 1)), 2)
        /\ atmosphere_dim = 3 => InLimits(fractional_gp(At(s.gp_lon, n - 1)), 4)

\* ppath_inside_cloudbox_do: the path leaves the cloud box with its last step
LeavesCloudbox(s) ==
    LET n == s.np
        out(gps, lo) ==
            LET ipos1 == fractional_gp(At(gps, n - 1))
                ipos2 == fractional_gp(At(gps, n - 2))
            IN  \/ QLe(ipos1, I(At(cloudbox_limits, lo))) /\ QLt(ipos1, ipos2)
                \/ QLe(I(At(cloudbox_limits, lo + 1)), ipos1) /\ QLt(ipos2, ipos1)
    IN  \/ out(s.gp_p, 0)
        \/ atmosphere_dim > 1 /\ out(s.gp_lat, 2)
        \/ atmosphere_dim > 2 /\ out(s.gp_lon, 4)

\* a changed check: a background that is already set is kept
CloudboxCheckUnsetOnly(s2) ==
    IF cloudbox_on /\ InsideCloudbox(s2) /\ ppath_what_background(s2) = 0
    THEN ppath_set_background(s2, 3) ELSE s2

\* an active cloud box is reached
CloudboxCheck(s2) ==
    IF cloudbox_on /\ InsideCloudbox(s2) THEN ppath_set_background(s2, 3) ELSE s2

\* the checks of the end faces and of the cloud box, after the check of the top
FaceChecks(s1, lat_err, lon) ==
    IF lat_err # "" THEN Thrown(lat_err, s1)
    ELSE IF lon.err # "" THEN lon
    ELSE Ok(CloudboxCheck(lon.ppath))

\* the top of the atmosphere is reached at the end of the step
TopCheck(s) ==
    IF TopReached(At(s.gp_p, s.np - 1)) THEN ppath_set_background(s, 1) ELSE s

\* all checks of a new step: a runtime_error, or the step with its
\* background (and, for 3D, the longitude of its end point) updated
BoundaryCheck(s) ==
    IF ~ppath_inside_cloudbox_do
    THEN FaceChecks(TopCheck(s), LatEndFace(TopCheck(s)), LonEndFace(TopCheck(s)))
    ELSE Ok(IF LeavesCloudbox(s) THEN ppath_set_background(s, 3) ELSE s)

\* a changed test: a step that reached space does not end the loop
ReadyBelowOnly(s) == ppath_what_background(s) > 1

\* the path is complete when the background of the last step is set
Ready(s) == ppath_what_background(s) # 0

\* a complete step gets the start point of the path
SetStart(s) ==
    IF Ready(s)
    THEN [s EXCEPT !.start_pos = At(s.pos, s.np - 1),
                   !.start_los = At(s.los, s.np - 1)]
    ELSE s

(***************************************************************************)
(* ppath_calc: the complete path                                           *)
(***************************************************************************)
\* ppath_copy(ppath1, ppath2, ncopy), for ncopy >= 1
ppath_copy(ppath1, ppath2, ncopy) ==
    LET n == ncopy
        cp(a, b) == [j \in 1..Len(a) |-> IF j <= n THEN b[j] ELSE a[j]]
        p == [ppath1 EXCEPT
                !.dim = ppath2.dim, !.constant = ppath2.constant,
                !.background = ppath2.background,
                !.end_pos = ppath2.end_pos, !.end_los = ppath2.end_los,
                !.end_lstep = ppath2.end_lstep,
                !.pos = cp(ppath1.pos, ppath2.pos),
                !.los = cp(ppath1.los, ppath2.los),
                !.r = cp(ppath1.r, ppath2.r),
                !.nreal = cp(ppath1.nreal, ppath2.nreal),
                !.ngroup = cp(ppath1.ngroup, ppath2.ngroup),
                !.lstep = [j \in 1..Len(ppath1.lstep) |->
                             IF j <= n - 1 THEN ppath2.lstep[j] ELSE ppath1.lstep[j]],
                !.gp_p = cp(ppath1.gp_p, ppath2.gp_p),
                !.gp_lat = IF ppath2.dim >= 2 THEN cp(ppath1.gp_lat, ppath2.gp_lat)
                           ELSE ppath1.gp_lat,
                !.gp_lon = IF ppath2.dim = 3 THEN cp(ppath1.gp_lon, ppath2.gp_lon)
                           ELSE ppath1.gp_lon]
    IN  IF n = ppath1.np
        THEN [p EXCEPT !.start_pos = ppath2.start_pos,
                       !.start_los = ppath2.start_los,
                       !.start_lstep = ppath2.start_lstep]
        ELSE p

\* the agenda called for a path of one point: it sets the refractive indices
AgendaPoint(s) ==
    IF agenda.kind = "geom" THEN ppath_step_geom(s, agenda.lmax)
    ELSE [s EXCEPT !.nreal = Put(s.nreal, 0, nreal_at(0)),
                   !.ngroup = Put(s.ngroup, 0, ngroup_at(0))]

\* no path, just the starting point; called is the step the agenda returns
\* for it, if the agenda is called
NoPath(p0, called) ==
    LET c == ppath_copy(p0, ppath_step, 1)
    IN  IF ppath_what_background(ppath_step) > 1
        THEN [c EXCEPT !.nreal = Put(c.nreal, 0, At(called.nreal, 0)),
                       !.ngroup = Put(c.ngroup, 0, At(called.ngroup, 0))]
        ELSE c

\* a changed index: the first point of every structure is included
i1Zero(i) == 0

\* first index to include of structure i of ppath_array
i1(i) == IF i = 0 THEN 0 ELSE 1

\* v[Range(i1, n - i1)] of structure i
Part(v, i) == SubSeq(v, i1(i) + 1, Len(v))

\* the parts lo..hi after each other
RECURSIVE Cat(_, _, _)
Cat(parts, lo, hi) ==
    IF lo > hi THEN <<>>
    ELSE IF lo = hi THEN parts[lo]
    ELSE LET mid == (lo + hi) \div 2
         IN  Cat(parts, lo, mid) \o Cat(parts, mid + 1, hi)

\* the array a of the new structure after the parts are written from index 0
Written(a, parts) ==
    LET c == Cat(parts, 1, Len(parts))
    IN  [j \in 1..Len(a) |-> IF j <= Len(c) THEN c[j] ELSE a[j]]

\* the elements of ppath_array merged into the structure p0
MergeArray(p0) ==
    LET na == nelem(ppath_array)
        parts(F(_)) == [i \in 1..na |-> Part(F(ppath_array[i]), i - 1)]
    IN  [p0 EXCEPT
           !.r      = Written(p0.r, parts(LAMBDA s : s.r)),
           !.pos    = Written(p0.pos, parts(LAMBDA s : s.pos)),
           !.los    = Written(p0.los, parts(LAMBDA s : s.los)),
           !.nreal  = Written(p0.nreal, parts(LAMBDA s : s.nreal)),
           !.ngroup = Written(p0.ngroup, parts(LAMBDA s : s.ngroup)),
           !.lstep  = Written(p0.lstep, [i \in 1..na |-> ppath_array[i].lstep]),
           !.gp_p   = Written(p0.gp_p, parts(LAMBDA s : s.gp_p)),
           !.gp_lat = IF atmosphere_dim >= 2
                      THEN Written(p0.gp_lat, parts(LAMBDA s : s.gp_lat))
                      ELSE p0.gp_lat,
           !.gp_lon = IF atmosphere_dim = 3
                      THEN Written(p0.gp_lon, parts(LAMBDA s : s.gp_lon))
                      ELSE p0.gp_lon,
           !.end_lstep   = end_first.end_lstep,
           !.end_pos     = end_first.end_pos,
           !.end_los     = end_first.end_los,
           !.constant    = ppath_step.constant,
           !.background  = ppath_step.background,
           !.start_pos   = ppath_step.start_pos,
           !.start_los   = ppath_step.start_los,
           !.start_lstep = ppath_step.start_lstep]

\* the number of points moved to ppath
Moved == LET na == nelem(ppath_array)
             RECURSIVE cnt(_, _)
             cnt(lo, hi) == IF lo > hi THEN 0
                            ELSE IF lo = hi THEN ppath_array[lo].np - i1(lo - 1)
                            ELSE cnt(lo, (lo + hi) \div 2)
                                 + cnt((lo + hi) \div 2 + 1, hi)
         IN  cnt(1, na)

(***************************************************************************)
(* ppath_calc as a state machine                                           *)
(***************************************************************************)
\* the checks of the input
InputCheck ==
    IF chk_rte_pos # "" THEN chk_rte_pos
    ELSE IF chk_rte_los # "" THEN chk_rte_los
    ELSE IF ppath_inside_cloudbox_do /\ ~cloudbox_on
    THEN "The WSV *ppath_inside_cloudbox_do* can only be set to 1 if also *cloudbox_on* is 1."
    ELSE ""

\* input checks and ppath_start_stepping, up to the first test of the loop
Start ==
    /\ pc = "call"
    /\ IF InputCheck # "" THEN
           /\ pc' = "error"
           /\ err' = InputCheck
           /\ UNCHANGED <<ppath_step, end_first>>
       ELSE
           \E res \in {ppath_start_stepping} :
               /\ ppath_step' = res.ppath
               /\ err' = res.err
               /\ end_first' = IF res.err # "" THEN end_first
                               ELSE [end_lstep |-> res.ppath.end_lstep,
                                     end_pos   |-> res.ppath.end_pos,
                                     end_los   |-> res.ppath.end_los]
               /\ pc' = IF res.err # "" THEN "error"
                        ELSE IF Ready(res.ppath) THEN "merge" ELSE "loop"
    /\ UNCHANGED <<inputs, ppath, ppath_array, np, istep, ncalls, locals>>

\* the iterations of the loop that are followed
Followed ==
    \/ istep < MaxSteps
    \/ istep >= IterCap - MaxSteps
    \/ agenda.kind = "geom" /\ istep < MaxGeomSteps

\* one iteration of the loop: a call of ppath_step_agenda and all checks
Step ==
    /\ pc = "loop"
    /\ Followed
    /\ \E s \in AgendaSteps(ppath_step, istep + 1) :
       \E res \in {BoundaryCheck(s)} :
             /\ istep' = istep + 1
             /\ ncalls' = ncalls + 1
             /\ np' = CountPoints(np, s.np)
             /\ IF CapExceeded(istep + 1) THEN
                    /\ pc' = "error"
                    /\ err' = TooManySteps
                    /\ ppath_step' = s
                    /\ UNCHANGED ppath_array
                ELSE IF res.err # "" THEN
                    /\ pc' = "error"
                    /\ err' = res.err
                    /\ ppath_step' = res.ppath
                    /\ UNCHANGED ppath_array
                ELSE
                    /\ ppath_step' = SetStart(res.ppath)
                    /\ ppath_array' = Append(ppath_array, SetStart(res.ppath))
                    /\ pc' = IF Ready(res.ppath) THEN "merge" ELSE "loop"
                    /\ UNCHANGED err
    /\ UNCHANGED <<inputs, ppath, end_first, locals>>

\* the structures of ppath_array are combined to the returned structure
Merge ==
    /\ pc = "merge"
    /\ LET p0 == ppath_init_structure(atmosphere_dim, np)
       IN  IF nelem(ppath_array) = 0
           THEN /\ \E called \in {IF ppath_what_background(ppath_step) > 1
                                   THEN AgendaPoint(ppath_step)
                                   ELSE ppath_step} :
                       /\ ppath' = NoPath(p0, called)
                       /\ ppath_step' = called
                /\ ncalls' = IF ppath_what_background(ppath_step) > 1
                             THEN ncalls + 1 ELSE ncalls
                /\ UNCHANGED np
           ELSE /\ ppath' = MergeArray(p0)
                /\ np' = Moved
                /\ UNCHANGED <<ppath_step, ncalls>>
    /\ pc' = "done"
    /\ UNCHANGED <<inputs, err, ppath_array, istep, end_first, locals>>

(***************************************************************************)
(* The calls of ppath_calc that are checked                                *)
(***************************************************************************)
\* a field with the same altitude at all latitudes and longitudes
Level(z, nlat, nlon) == [i \in 1..nlat |-> [j \in 1..nlon |-> I(z)]]

\* a field with the altitudes zs along the latitudes, the same at all longitudes
Rows(zz, nlon) == [i \in 1..Len(zz) |-> [j \in 1..nlon |-> I(zz[i])]]

\* the planet has a radius of 20 m and three pressure levels
Atm1D == [dim |-> 1, lat_grid |-> <<>>, lon_grid |-> <<>>,
          z_field |-> <<Level(0, 1, 1), Level(10, 1, 1), Level(20, 1, 1)>>,
          z_surface |-> Level(4, 1, 1)]

\* the top of the atmosphere and the surface rise towards the last latitude
Atm2D == [dim |-> 2, lat_grid |-> <<I(0), I(10), I(20), I(30)>>, lon_grid |-> <<>>,
          z_field |-> <<Level(0, 4, 1), Level(10, 4, 1), Rows(<<20, 20, 20, 30>>, 1)>>,
          z_surface |-> Rows(<<4, 4, 4, 6>>, 1)]

Atm3D == [dim |-> 3, lat_grid |-> <<I(0), I(10), I(20), I(30)>>,
          lon_grid |-> <<I(0), I(10), I(20), I(30)>>,
          z_field |-> <<Level(0, 4, 4), Level(10, 4, 4), Level(20, 4, 4)>>,
          z_surface |-> Level(4, 4, 4)]

\* the longitude grid covers 360 degrees
Atm3DAround == [Atm3D EXCEPT !.lon_grid = <<I(-180), I(-60), I(60), I(180)>>]

Atmospheres == {Atm1D, Atm2D, Atm3D, Atm3DAround}

\* sensor altitudes: below the surface, within RTOL of it, inside and at
\* or above the top of the atmosphere
Altitudes(dim) ==
    CASE dim = 1 -> {I(3), Q(1999, 500), Q(3999, 1000), I(4), I(12), I(20),
                     I(40), I(60)}
      [] dim = 2 -> {I(3), Q(3999, 1000), I(4), I(12), I(22), I(30), I(40), I(80)}
      [] dim = 3 -> {I(3), Q(3999, 1000), I(4), I(12), I(40)}

Positions(dim) ==
    CASE dim = 1 -> {<<z>> : z \in Altitudes(1)}
      [] dim = 2 -> {<<z, A(lat)>> : z \in Altitudes(2), lat \in {15, 25, 30, 100}}
      [] dim = 3 -> {<<z, A(15), A(lon)>> : z \in Altitudes(3), lon \in {15, -345}}

Directions(dim) ==
    CASE dim = 1 -> {<<A(za)>> : za \in {0, 30, 90, 150, 180, 181}}
      [] dim = 2 -> {<<A(za)>> : za \in {-90, 0, 90, 150}}
      [] dim = 3 -> {<<A(za), A(aa)>> : za \in {0, 90, 150}, aa \in {0, 90}}

NoCloudbox == [on |-> FALSE, limits |-> <<>>, inside |-> FALSE]

Cloudboxes(dim) ==
    {NoCloudbox, [NoCloudbox EXCEPT !.inside = TRUE]} \cup
    CASE dim = 1 -> {[on |-> TRUE, limits |-> l, inside |-> i] :
                       l \in {<<0, 1>>, <<1, 2>>}, i \in BOOLEAN}
      [] dim = 2 -> {[on |-> TRUE, limits |-> <<0, 1, 1, 2>>, inside |-> i] :
                       i \in BOOLEAN}
      [] dim = 3 -> {[on |-> TRUE, limits |-> <<0, 1, 1, 2, 1, 2>>, inside |-> i] :
                       i \in BOOLEAN}

\* the step numbers at which the slow agenda reaches the top of the atmosphere
Tops == {0, 2, IterCap - 1, IterCap, IterCap + 1}

Agendas == {[kind |-> "free", top |-> 0]}
           \cup {[kind |-> "slow", top |-> t] : t \in Tops}

\* what the output argument of the caller holds before the call
PriorPpath == ppath_set_background(ppath_init_structure(1, 2), 9)

\* the local ppath_step before ppath_start_stepping has filled it
NoStep == ppath_init_structure(1, 1)

NoEnd == [end_lstep |-> ZeroL, end_pos |-> <<>>, end_los |-> <<>>]

\* 2D and 3D: the sensor is outside of the atmosphere and looks down at it;
\* the search for the entry point of such a path is not part of this model
EntrySearch ==
    LET lp   == nelem(z_field) - 1
        lat  == Deg(At(rte_pos, 1))
        za   == At(rte_los, 0)
        r_p  == QAdd(At(refellipsoid, 0), At(rte_pos, 0))
        rmax == QMax({QAdd(At(refellipsoid, 0), zf(lp, i, j)) :
                        i \in 0..(nelem(lat_grid) - 1),
                        j \in 0..(Max(1, nelem(lon_grid)) - 1)})
    IN  /\ atmosphere_dim > 1
        /\ InputCheck = ""
        /\ QLt(rmax, r_p)
        /\ AGt(AAbs(za), 90)
        /\ QLt(geometrical_ppc(r_p, za), rmax)

\* the slow agenda is used for sensors inside an atmosphere without cloud box
SlowCall ==
    /\ ~cloudbox_on /\ ~ppath_inside_cloudbox_do
    /\ At(rte_pos, 0) = I(12)
    /\ At(rte_los, 0) = A(0)
    /\ atmosphere_dim >= 2 => At(rte_pos, 1) = A(15)
    /\ atmosphere_dim = 3 => /\ At(rte_pos, 2) = A(15)
                             /\ At(rte_los, 1) = A(90)
                             /\ lon_grid = Atm3D.lon_grid

\* the inputs of a call
Inputs ==
    \E atm \in Atmospheres :
    \E pos \in Positions(atm.dim), los \in Directions(atm.dim) :
    \E cb \in Cloudboxes(atm.dim), ag \in Agendas :
        /\ atmosphere_dim = atm.dim
        /\ z_field = atm.z_field
        /\ lat_grid = atm.lat_grid
        /\ lon_grid = atm.lon_grid
        /\ z_surface = atm.z_surface
        /\ refellipsoid = <<I(20), I(0)>>
        /\ cloudbox_on = cb.on
        /\ cloudbox_limits = cb.limits
        /\ ppath_inside_cloudbox_do = cb.inside
        /\ rte_pos = pos
        /\ rte_los = los
        /\ agenda = ag
        /\ ag.kind = "slow" => SlowCall
        /\ ~EntrySearch

\* ppath_calc is called
InitCall ==
    /\ Inputs
    /\ pc = "call"
    /\ err = ""
    /\ ppath = PriorPpath
    /\ ppath_step = NoStep
    /\ ppath_array = <<>>
    /\ np = 1
    /\ istep = 0
    /\ end_first = NoEnd
    /\ ncalls = 0
    /\ locals = NoLocals

\* the line-of-sight at the end of the steps of the slow agenda
SlowLos(start) ==
    IF atmosphere_dim = 3 THEN <<At(At(start.los, 0), 0), A(SlowEnd(1).aa)>>
    ELSE At(start.los, 0)

\* what step k > 1 of the slow agenda reads of the step before it, which
\* ended at the point b
SlowPrev(start, b, k) ==
    [ppath_init_structure(atmosphere_dim, 1) EXCEPT
       !.constant = geometrical_ppc(At(start.r, 0), At(At(start.los, 0), 0)),
       !.pos = <<b.pos>>, !.los = <<b.los>>, !.r = <<b.r>>, !.gp_p = <<b.gp_p>>,
       !.gp_lat = IF atmosphere_dim >= 2 THEN <<b.gp_lat>> ELSE <<>>,
       !.gp_lon = IF atmosphere_dim = 3 THEN <<b.gp_lon>> ELSE <<>>,
       !.nreal = <<nreal_at(tag(k - 1, 1))>>,
       !.ngroup = <<ngroup_at(tag(k - 1, 1))>>]

\* step number k of the slow agenda for a path that starts with the
\* structure start, without the steps before it
SlowStepAt(start, k) ==
    IF k = 1 THEN AgendaStep(start, 1, 2, SlowEnd(1))
    ELSE CHOOSE s \in {AgendaStep(p, k, 2, SlowEnd(k)) :
                         p \in {SlowPrev(start, b, k) :
                                  b \in {PointAt(SlowEnd(k - 1), SlowLos(start))}}} : TRUE

\* ppath_calc after k iterations of the loop with the slow agenda, in a 1D
\* atmosphere
InitLoop(k) ==
    /\ Inputs
    /\ agenda.kind = "slow" /\ (agenda.top = 0 \/ agenda.top > k)
    /\ atmosphere_dim = 1
    /\ \E start \in {ppath_start_stepping.ppath} :
         /\ pc = "loop"
         /\ err = ""
         /\ ppath = PriorPpath
         /\ ppath_step = SlowStepAt(start, k)
         /\ ppath_array = [i \in 1..k |-> SlowStepAt(start, i)]
         /\ np = 1 + k
         /\ istep = k
         /\ end_first = [end_lstep |-> start.end_lstep,
                         end_pos   |-> start.end_pos,
                         end_los   |-> start.end_los]
         /\ ncalls = k
         /\ locals = NoLocals

Init == InitCall

\* the loop with the slow agenda is followed for its first and its last
\* MaxSteps iterations; the iterations between are the ones of InitLoop
InitCap == InitCall \/ InitLoop(IterCap - MaxSteps)

\* the state of the loop with the slow agenda is the one of InitLoop
SlowLoop ==
    (agenda.kind = "slow" /\ pc = "loop" /\ istep > 0) =>
        \A start \in {ppath_start_stepping.ppath} :
            /\ ppath_step = SlowStepAt(start, istep)
            /\ ppath_array = [i \in 1..istep |-> SlowStepAt(start, i)]
            /\ np = 1 + istep
            /\ ncalls = istep
            /\ locals = NoLocals
            /\ err = "" /\ ppath = PriorPpath
            /\ end_first = [end_lstep |-> start.end_lstep,
                            end_pos   |-> start.end_pos,
                            end_los   |-> start.end_los]

(***************************************************************************)
(* The calls with geometrical steps                                        *)
(***************************************************************************)
\* a planet with a radius of 70 m and the pressure levels at the radii 70,
\* 82, 100 and 116 m: with the path constant 80 m, the lengths to the tangent
\* point are 18 m (radius 82), 39 m (89), 60 m (100) and 84 m (116)
GeomAtm1D(z_s) ==
    [dim |-> 1, lat_grid |-> <<>>, lon_grid |-> <<>>,
     z_field |-> <<Level(0, 1, 1), Level(12, 1, 1), Level(30, 1, 1), Level(46, 1, 1)>>,
     z_surface |-> Level(z_s, 1, 1)]

\* surface altitudes: below the tangent point of the path constant 80 m, at
\* it, at a pressure level, inside a grid range, at a higher pressure level
GeomSurfaces == {5, 10, 12, 19, 30}

GeomAtmospheres == {GeomAtm1D(z_s) : z_s \in GeomSurfaces} \cup {Atm2D}

\* the radius of the planet
GeomRadius(dim) == IF dim = 1 THEN I(70) ELSE I(20)

\* sensors with the path constant 80 m: above the atmosphere and at the
\* tangent point; and sensors that look straight up or down
GeomSlant == {[pos |-> <<I(90)>>, los |-> <<A(150)>>],
              [pos |-> <<I(10)>>, los |-> <<A(90)>>]}

GeomVertical == {[pos |-> <<I(z)>>, los |-> <<A(za)>>] :
                   z \in {12, 20, 30, 90}, za \in {0, 180}}

\* 2D: sensors inside the atmosphere that look straight up or down, between
\* latitudes with level pressure levels (15) and below the rising top of the
\* atmosphere (25), on the surface, on a pressure level and between
GeomVertical2D == {[pos |-> <<I(z), A(lat)>>, los |-> <<A(za)>>] :
                     z \in {4, 5, 10, 12}, lat \in {15, 25}, za \in {0, 180}}

GeomSensors(dim) ==
    IF dim = 1 THEN GeomSlant \cup GeomVertical ELSE GeomVertical2D

\* lmax: no length criterion (-1, 0), and lengths shorter and longer than
\* the steps; the lengths 5 and 7 m divide the steps of vertical paths only
GeomLmax(sensor) ==
    {I(-1), I(0), I(30), I(40), I(100)}
    \cup IF sensor \in GeomVertical \cup GeomVertical2D THEN {I(5), I(7)} ELSE {}

GeomInputs ==
    \E atm \in GeomAtmospheres :
    \E sensor \in GeomSensors(atm.dim) :
    \E l \in GeomLmax(sensor) :
        /\ atmosphere_dim = atm.dim
        /\ z_field = atm.z_field
        /\ lat_grid = atm.lat_grid
        /\ lon_grid = atm.lon_grid
        /\ z_surface = atm.z_surface
        /\ refellipsoid = <<GeomRadius(atm.dim), I(0)>>
        /\ cloudbox_on = FALSE
        /\ cloudbox_limits = <<>>
        /\ ppath_inside_cloudbox_do = FALSE
        /\ rte_pos = sensor.pos
        /\ rte_los = sensor.los
        /\ agenda = [kind |-> "geom", top |-> 0, lmax |-> l]

InitGeom ==
    /\ GeomInputs
    /\ pc = "call"
    /\ err = ""
    /\ ppath = PriorPpath
    /\ ppath_step = NoStep
    /\ ppath_array = <<>>
    /\ np = 1
    /\ istep = 0
    /\ end_first = NoEnd
    /\ ncalls = 0
    /\ locals = NoLocals

Next == Start \/ Step \/ Merge

Spec == Init /\ [][Next]_vars

\* the calls that show the largest number of steps
SpecCap == InitCap /\ [][Next]_vars

\* the calls with geometrical steps
SpecGeom == InitGeom /\ [][Next]_vars

\* ppath_calc has neither returned nor thrown, and moves on: to its next
\* part, or to the next iteration of its loop
Runs ==
    /\ pc \in {"call", "merge"} \/ (pc = "loop" /\ Followed)
    /\ pc' \in {"loop", "merge", "done", "error"}
    /\ istep' \in {istep, istep + 1}

\* ppath_calc is a sequential function: once called, it runs until it
\* returns or throws
SpecGeomFair == InitGeom /\ [][Next]_vars /\ WF_<<pc, istep>>(Runs)

(***************************************************************************)
(* Properties of ppath_calc                                                *)
(***************************************************************************)
na == nelem(ppath_array)

Background(p) == ppath_what_background(p)

\* C1: the loop of ppath_calc goes on exactly as long as the background of
\* the last step is unset: the loop is only left, and a path only returned,
\* with the background set; a step with its background set is the last step
\* of the path; every returned path has a background other than "unvalid".
C1_StepsUntilBackground ==
    /\ pc = "loop" => Background(ppath_step) = 0
    /\ pc \in {"merge", "done"} => Background(ppath_step) # 0
    /\ \A i \in 1..na :
         Background(ppath_array[i]) # 0 => i = na /\ pc \in {"merge", "done"}
    /\ pc = "done" => /\ ppath.background # "unvalid"
                      /\ ppath.background = ppath_step.background
    /\ ncalls = istep + (IF pc = "done" /\ na = 0 /\ Background(ppath_step) > 1
                         THEN 1 ELSE 0)

\* a path of two steps is returned: the first step left the background
\* unset, the second reached space
C1_Witness ==
    /\ pc = "done" /\ na = 2 /\ ncalls = 2
    /\ Background(ppath_array[1]) = 0
    /\ ppath.background = "space"

\* C2 (as amended): the test of the cap follows the call of the agenda, so
\* at most 10 001 steps are executed; the error is raised after step 10 001
\* whatever that step found, and then no path is returned; a path whose
\* background is set by a step up to step 10 000 is returned without error.
C2_CapAfterStep ==
    /\ istep <= IterCap + 1 /\ ncalls <= IterCap + 1
    /\ pc = "loop" => istep <= IterCap
    /\ istep = IterCap + 1 <=> err = TooManySteps
    /\ err = TooManySteps => pc = "error" /\ ncalls = IterCap + 1 /\ ppath = PriorPpath
    /\ pc \in {"merge", "done"} => err = "" /\ istep <= IterCap
    /\ (pc = "done" /\ na > 0) => na = istep /\ Background(ppath_array[na]) # 0

\* the error of the cap is raised, after step 10 001
C2_Witness == pc = "error" /\ err = TooManySteps /\ ncalls = IterCap + 1

\* C2 (as stated): never more than 10 000 steps are executed
C2_AtMostCapSteps == ncalls <= IterCap

\* the number of points, and of lengths, ahead of structure i in the merged path
RECURSIVE PointsBefore(_)
PointsBefore(i) ==
    IF i = 1 THEN 0
    ELSE PointsBefore(i - 1) + ppath_array[i - 1].np - (IF i = 2 THEN 0 ELSE 1)

RECURSIVE LengthsBefore(_)
LengthsBefore(i) ==
    IF i = 1 THEN 0 ELSE LengthsBefore(i - 1) + ppath_array[i - 1].np - 1

\* point m (from 1) of structure i is point MergedIndex(i, m) of the path
MergedIndex(i, m) == PointsBefore(i) + m - (IF i = 1 THEN 0 ELSE 1)

\* C3: the returned path holds all points of the first step and all points
\* but the first of each later step, in order, and the lengths of all steps
\* in order; nothing else is in the path.
C3_MergeKeepsOrder ==
    (pc = "done" /\ na > 0) =>
        /\ ppath.np = PointsBefore(na + 1)
        /\ Len(ppath.pos) = ppath.np /\ Len(ppath.lstep) = LengthsBefore(na + 1)
        /\ \A i \in 1..na : \A m \in (IF i = 1 THEN 1 ELSE 2)..ppath_array[i].np :
             /\ ppath.pos[MergedIndex(i, m)] = ppath_array[i].pos[m]
             /\ ppath.los[MergedIndex(i, m)] = ppath_array[i].los[m]
             /\ ppath.r[MergedIndex(i, m)] = ppath_array[i].r[m]
             /\ ppath.nreal[MergedIndex(i, m)] = ppath_array[i].nreal[m]
             /\ ppath.ngroup[MergedIndex(i, m)] = ppath_array[i].ngroup[m]
             /\ ppath.gp_p[MergedIndex(i, m)] = ppath_array[i].gp_p[m]
             /\ atmosphere_dim >= 2 =>
                  ppath.gp_lat[MergedIndex(i, m)] = ppath_array[i].gp_lat[m]
             /\ atmosphere_dim = 3 =>
                  ppath.gp_lon[MergedIndex(i, m)] = ppath_array[i].gp_lon[m]
        /\ \A i \in 1..na : \A m \in 1..(ppath_array[i].np - 1) :
             ppath.lstep[LengthsBefore(i) + m] = ppath_array[i].lstep[m]
        /\ \A i \in 2..na :
             ppath.nreal[PointsBefore(i)] = ppath_array[i].nreal[1]

\* two steps of three points each are merged to a path of five points
C3_Witness ==
    /\ pc = "done" /\ na = 2
    /\ ppath_array[1].np = 3 /\ ppath_array[2].np = 3
    /\ ppath.np = 5 /\ Len(ppath.lstep) = 4

\* np >= 1, np - 1 lengths and np entries of every array of points
WellFormed(p) ==
    /\ p.np >= 1
    /\ Len(p.lstep) = p.np - 1
    /\ Len(p.r) = p.np /\ Len(p.pos) = p.np /\ Len(p.los) = p.np
    /\ Len(p.nreal) = p.np /\ Len(p.ngroup) = p.np
    /\ Len(p.gp_p) = p.np
    /\ p.dim >= 2 => Len(p.gp_lat) = p.np
    /\ p.dim = 3 => Len(p.gp_lon) = p.np

RECURSIVE SumOfSteps(_)
SumOfSteps(i) == IF i = 0 THEN 0 ELSE SumOfSteps(i - 1) + ppath_array[i].np - 1

OnLatEndFace(i) ==
    LET gp == At(ppath_array[i].gp_lat, ppath_array[i].np - 1)
    IN  /\ atmosphere_dim = 2 /\ ~ppath_inside_cloudbox_do
        /\ \/ is_gridpos_at_index_i(gp, 0)
           \/ is_gridpos_at_index_i(gp, nelem(lat_grid) - 1)

\* C5: a runtime_error of the input checks, of the resolution of the entry
\* point, of an end face or of the cap leaves the output of the caller as it
\* was: the output is written only when a path is returned, and no path is
\* returned for an input that is refused or with a step that ends on a
\* latitude end face.
C5_ErrorLeavesOutput ==
    /\ pc # "done" => ppath = PriorPpath
    /\ err # "" <=> pc = "error"
    /\ InputCheck # "" => pc \in {"call", "error"}
    /\ pc = "done" => \A i \in 1..na : ~OnLatEndFace(i)

\* the path leaves through a latitude end face after a first step without
\* error: the steps are lost and the output is as before the call
C5_Witness ==
    /\ pc = "error" /\ err = EndFace("lower latitude")
    /\ na = 1 /\ istep = 2
    /\ ppath = PriorPpath

(***************************************************************************)
(* Properties of ppath_start_stepping                                      *)
(***************************************************************************)
SensorZ == At(rte_pos, 0)

\* the sensor is strictly inside the latitude and longitude grids
SensorInGrids ==
    \/ atmosphere_dim = 1
    \/ /\ QLt(At(lat_grid, 0), Deg(At(rte_pos, 1)))
       /\ QLt(Deg(At(rte_pos, 1)), At(lat_grid, nelem(lat_grid) - 1))
       /\ atmosphere_dim = 3 =>
            LET lon == resolve_lon(Deg(At(rte_pos, 2)), At(lon_grid, 0),
                                   At(lon_grid, nelem(lon_grid) - 1))
            IN  /\ QLt(At(lon_grid, 0), lon)
                /\ QLt(lon, At(lon_grid, nelem(lon_grid) - 1))

\* the altitude of pressure level ip, or of the surface, at the sensor
AtSensor(field) ==
    CASE atmosphere_dim = 1 -> At(At(field, 0), 0)
      [] atmosphere_dim = 2 ->
           interp([i \in 1..nelem(lat_grid) |-> At(At(field, i - 1), 0)],
                  gridpos(lat_grid, Deg(At(rte_pos, 1))))
      [] atmosphere_dim = 3 ->
           interp2(field, gridpos(lat_grid, Deg(At(rte_pos, 1))),
                   gridpos(lon_grid, resolve_lon(Deg(At(rte_pos, 2)), At(lon_grid, 0),
                                                 At(lon_grid, nelem(lon_grid) - 1))))

TopAtSensor == AtSensor(At(z_field, nelem(z_field) - 1))

SurfaceAtSensor == AtSensor(z_surface)

\* the input is accepted and the sensor is inside the model atmosphere
SensorInside ==
    InputCheck = "" /\ SensorInGrids /\ QLt(SensorZ, TopAtSensor)

\* the sensor is inside the atmosphere and more than RTOL below the surface
SensorBuried == SensorInside /\ QLt(RTOL, QSub(SurfaceAtSensor, SensorZ))

\* 2D: the sensor is on the first or last latitude of the grid, below the
\* top of the atmosphere there and more than RTOL below the surface there
SensorBuriedOnEdge ==
    /\ atmosphere_dim = 2 /\ InputCheck = ""
    /\ \E i \in {0, nelem(lat_grid) - 1} :
          /\ Deg(At(rte_pos, 1)) = At(lat_grid, i)
          /\ QLt(SensorZ, zf(nelem(z_field) - 1, i, 0))
          /\ QLt(RTOL, QSub(zs(i, 0), SensorZ))

\* C6: for 1D, 2D and 3D, a sensor inside the atmosphere that is more than
\* RTOL = 1e-3 below the surface gives a runtime_error and no path; for a
\* sensor at or above the surface, or below it by RTOL or less, this error
\* is not raised.  A sensor below the surface on the edge of the latitude
\* grid is refused as well, by one of the errors for sensors outside.
C6_BelowSurfaceRefused ==
    /\ (SensorBuried /\ pc # "call") =>
          pc = "error" /\ err = BelowTheSurface /\ ppath = PriorPpath
    /\ (SensorBuriedOnEdge /\ pc # "call") =>
          pc = "error" /\ err \in {WrongDirection2D, BelowMaxToa}
                       /\ ppath = PriorPpath
    /\ ~SensorBuried => err # BelowTheSurface

\* a 2D sensor 1 m below the surface is refused
C6_Witness ==
    /\ atmosphere_dim = 2 /\ SensorBuried
    /\ pc = "error" /\ err = BelowTheSurface

\* 1D: the sensor is at or above the top of the atmosphere and looks up, or
\* looks down with r*sin(za) not below the radius of the top
Outside1D ==
    /\ atmosphere_dim = 1 /\ InputCheck = ""
    /\ QLe(TopAtSensor, SensorZ)
    /\ \/ ALe(At(rte_los, 0), 90)
       \/ QLe(QAdd(At(refellipsoid, 0), TopAtSensor),
              QMul(QAdd(At(refellipsoid, 0), SensorZ), SinDeg(At(rte_los, 0))))

\* C7: for a 1D sensor at or above the top of the atmosphere that looks up
\* (za <= 90), or down with r*sin(za) >= the radius of the top, the
\* background is space, no error is raised, the agenda is never called and
\* the path has one point, with the position and line-of-sight of the sensor.
C7_OutsideIsSpace ==
    Outside1D =>
        /\ err = "" /\ pc \in {"call", "merge", "done"}
        /\ ncalls = 0 /\ istep = 0 /\ na = 0
        /\ pc # "call" => ppath_step.background = "space"
        /\ pc = "done" =>
             /\ ppath.background = "space"
             /\ ppath.np = 1 /\ Len(ppath.lstep) = 0
             /\ ppath.pos = <<<<SensorZ, A(0)>>>>
             /\ ppath.los = <<rte_los>>
             /\ ppath.r = <<QAdd(At(refellipsoid, 0), SensorZ)>>

\* the path of a sensor that looks down and touches the top of the
\* atmosphere (r*sin(za) = 80/2 = 40 = the radius of the top) is returned
C7_Witness ==
    /\ Outside1D /\ pc = "done"
    /\ SensorZ = I(60) /\ rte_los = <<A(150)>>
    /\ ppath.background = "space"

\* 2D: the sensor is inside the latitude grid, at or above the top of the
\* atmosphere at its latitude, and looks up
AboveLocalTop2D ==
    /\ atmosphere_dim = 2 /\ InputCheck = "" /\ SensorInGrids
    /\ QLe(TopAtSensor, SensorZ)
    /\ ALe(AAbs(At(rte_los, 0)), 90)

\* C8 (as stated): a 2D sensor with its latitude strictly inside the
\* latitude grid, at or above the top of the atmosphere at that latitude and
\* with |za| <= 90 gets the background space and no error, whatever the
\* radius of the top of the atmosphere at other latitudes.
C8_SpaceAboveLocalTop ==
    (AboveLocalTop2D /\ pc # "call") =>
        /\ err = ""
        /\ ppath_step.background = "space"

\* such a sensor below the largest radius of the top is refused as
\* "horizontally outside"
C8_Witness ==
    /\ AboveLocalTop2D /\ pc = "error" /\ err = BelowMaxToa
    /\ QLe(QAdd(At(refellipsoid, 0), SensorZ), ToaMax)

\* 1D: the sensor is at or above the top of the atmosphere and looks down
\* with an impact parameter below the radius of the top
Entering1D ==
    /\ atmosphere_dim = 1 /\ InputCheck = ""
    /\ QLe(TopAtSensor, SensorZ)
    /\ AGt(At(rte_los, 0), 90)
    /\ QLt(QMul(QAdd(At(refellipsoid, 0), SensorZ), SinDeg(At(rte_los, 0))),
           QAdd(At(refellipsoid, 0), TopAtSensor))

\* C9: for a 1D sensor above the top of the atmosphere that looks down with
\* an impact parameter below the radius of the top, the first point of the
\* path is on the top level (altitude z_field(top), radius ellipsoid +
\* z_field(top), grid position (nlevels - 2, fd = (1, 0))), the constant is
\* r*sin(za) of the sensor, the zenith angle there is above 90 with
\* r*sin(za) = the constant, and the background is unset unless the cloud
\* box reaches the top level.
C9_EntryAtTop ==
    (Entering1D /\ pc # "call" /\ istep = 0) =>
        /\ err = ""
        /\ ppath_step.np = 1
        /\ At(At(ppath_step.pos, 0), 0) = TopAtSensor
        /\ At(ppath_step.r, 0) = QAdd(At(refellipsoid, 0), TopAtSensor)
        /\ At(ppath_step.gp_p, 0) = [idx |-> nelem(z_field) - 2, fd |-> <<I(1), I(0)>>]
        /\ ppath_step.constant =
             QMul(QAdd(At(refellipsoid, 0), SensorZ), SinDeg(At(rte_los, 0)))
        /\ AGt(At(At(ppath_step.los, 0), 0), 90)
        /\ QMul(At(ppath_step.r, 0), SinDeg(At(At(ppath_step.los, 0), 0)))
             = ppath_step.constant
        /\ ppath_step.background =
             IF cloudbox_on /\ At(cloudbox_limits, 1) = nelem(z_field) - 1
             THEN "cloud box level" ELSE "unvalid"

\* a sensor at the radius 60 that looks down with za = 150 enters the
\* atmosphere (radius of the top: 40) with the zenith angle 180 - asin(3/4)
C9_Witness ==
    /\ Entering1D /\ pc = "loop" /\ istep = 0
    /\ SensorZ = I(40) /\ rte_los = <<A(150)>>
    /\ At(At(ppath_step.los, 0), 0) = [b |-> 180, k |-> -1, q |-> Q(3, 4)]
    /\ ppath_step.background = "unvalid"

(***************************************************************************)
(* Properties of the check of the top of the atmosphere                    *)
(***************************************************************************)
\* a step was taken outside of the cloud box mode, without cloud box
StepNoCloudbox ==
    ~ppath_inside_cloudbox_do /\ ~cloudbox_on /\ istep > 0

\* the last point of the last step is at the index of the top pressure level
EndsAtTop ==
    is_gridpos_at_index_i(At(ppath_step.gp_p, ppath_step.np - 1), nelem(z_field) - 1)

\* the last point of the last step is on an end face of the atmosphere
EndsOnFace ==
    /\ atmosphere_dim >= 2
    /\ \/ is_gridpos_at_index_i(At(ppath_step.gp_lat, ppath_step.np - 1), 0)
       \/ is_gridpos_at_index_i(At(ppath_step.gp_lat, ppath_step.np - 1),
                                nelem(lat_grid) - 1)
       \/ /\ atmosphere_dim = 3
          /\ \/ is_gridpos_at_index_i(At(ppath_step.gp_lon, ppath_step.np - 1), 0)
             \/ is_gridpos_at_index_i(At(ppath_step.gp_lon, ppath_step.np - 1),
                                      nelem(lon_grid) - 1)

\* the path is complete, with the end of the last step as its last point
CompleteInSpace ==
    /\ ppath_step.background = "space"
    /\ pc \in {"merge", "done"} /\ err = ""
    /\ pc = "done" =>
         /\ ppath.background = "space"
         /\ At(ppath.pos, ppath.np - 1) = At(ppath_step.pos, ppath_step.np - 1)
         /\ At(ppath.gp_p, ppath.np - 1) = At(ppath_step.gp_p, ppath_step.np - 1)

\* C10 (as amended): with ppath_inside_cloudbox_do false and no cloud box, a
\* step whose last point is at the index of the top pressure level gets the
\* background space from the driver and completes the path with this point as
\* its last, unless, in 2D and 3D, that point is also on a latitude or
\* longitude end face, where space is set and the end face error is raised,
\* or unless the step is step 10 001, where the error of the cap is raised
\* before the check; a step whose last point is not at that index never gets
\* space from the driver.
C10_TopIsSpaceUnlessFace ==
    StepNoCloudbox =>
        IF EndsAtTop
        THEN \/ CompleteInSpace
             \/ /\ ppath_step.background = "space"
                /\ EndsOnFace
                /\ pc = "error" /\ ppath = PriorPpath
                /\ err \in {EndFace("lower latitude"), EndFace("upper latitude"),
                            EndFace("lower longitude"), EndFace("upper longitude")}
             \/ istep = IterCap + 1 /\ pc = "error" /\ err = TooManySteps
        ELSE ppath_step.background # "space"

\* a 2D step ends at the top of the atmosphere on the lower latitude end
\* face: space is set, and the error is raised
C10_Witness ==
    /\ StepNoCloudbox /\ EndsAtTop /\ EndsOnFace
    /\ atmosphere_dim = 2
    /\ ppath_step.background = "space"
    /\ pc = "error" /\ err = EndFace("lower latitude")

\* C10 (as stated): every step whose last point is at the index of the top
\* pressure level gets space and completes the path
C10_TopIsAlwaysSpace ==
    StepNoCloudbox =>
        IF EndsAtTop THEN CompleteInSpace ELSE ppath_step.background # "space"

(***************************************************************************)
(* Properties of the checks of the end faces and of the cloud box          *)
(***************************************************************************)
\* the latitude grid position of the last point of the last step
LastGpLat == At(ppath_step.gp_lat, ppath_step.np - 1)

Spans360 ==
    QLe(I(360), QSub(At(lon_grid, nelem(lon_grid) - 1), At(lon_grid, 0)))

\* the step s ends on the first longitude with the path going west (d = 360)
\* or on the last longitude with the path going east (d = -360), not at a pole
EndsOnLon(s, d) ==
    LET n == s.np
    IN  /\ is_gridpos_at_index_i(At(s.gp_lon, n - 1),
                                 IF d > 0 THEN 0 ELSE nelem(lon_grid) - 1)
        /\ IF d > 0 THEN ALt(At(At(s.los, n - 1), 1), 0)
                    ELSE AGt(At(At(s.los, n - 1), 1), 0)
        /\ ALt(AAbs(At(At(s.pos, n - 1), 1)), 90)

\* the step s ends on a latitude end face of a 3D atmosphere
EndsOnLatFace3D(s) ==
    LET gp == At(s.gp_lat, s.np - 1)
        l  == nelem(lat_grid) - 1
    IN  \/ QLt(I(-90), At(lat_grid, 0)) /\ is_gridpos_at_index_i(gp, 0)
        \/ QLt(At(lat_grid, l), I(90)) /\ is_gridpos_at_index_i(gp, l)

\* the checks of s shifted the longitude of its last point by d degrees,
\* determined its longitude grid position anew, changed no other position
\* and raised no error
LonShifted(s, d) ==
    LET res == BoundaryCheck(s)
        n   == s.np
        lon == AAdd(At(At(s.pos, n - 1), 2), A(d))
        t   == res.ppath
    IN  /\ res.err = ""
        /\ At(At(t.pos, n - 1), 2) = lon
        /\ At(t.gp_lon, n - 1) = gridpos(lon_grid, Deg(lon))
        /\ QLe(At(lon_grid, 0), Deg(lon))
        /\ QLe(Deg(lon), At(lon_grid, nelem(lon_grid) - 1))
        /\ t.np = n /\ t.r = s.r /\ t.los = s.los /\ t.lstep = s.lstep
        /\ t.gp_p = s.gp_p /\ t.gp_lat = s.gp_lat
        /\ \A j \in 0..(n - 1) :
             /\ At(At(t.pos, j), 0) = At(At(s.pos, j), 0)
             /\ At(At(t.pos, j), 1) = At(At(s.pos, j), 1)
             /\ j < n - 1 => /\ At(t.pos, j) = At(s.pos, j)
                              /\ At(t.gp_lon, j) = At(s.gp_lon, j)

\* the name of the longitude end face crossed in the direction d
LonFace(d) == EndFace(IF d > 0 THEN "lower longitude" ELSE "upper longitude")

\* the steps the agenda can return next
NextSteps ==
    IF pc = "loop" /\ istep < MaxSteps
    THEN AgendaSteps(ppath_step, istep + 1) ELSE {}

WithinLimits(gp, lo) ==
    LET f == QAdd(I(gp.idx), At(gp.fd, 0))
    IN  /\ QLe(I(At(cloudbox_limits, lo)), f)
        /\ QLe(f, I(At(cloudbox_limits, lo + 1)))

\* the last point of the step s is within the cloud box in all dimensions
EndsInCloudbox(s) ==
    /\ WithinLimits(At(s.gp_p, s.np - 1), 0)
    /\ atmosphere_dim >= 2 => WithinLimits(At(s.gp_lat, s.np - 1), 2)
    /\ atmosphere_dim = 3 => WithinLimits(At(s.gp_lon, s.np - 1), 4)

\* the last point of the step s is at the index of the top pressure level
StepEndsAtTop(s) ==
    is_gridpos_at_index_i(At(s.gp_p, s.np - 1), nelem(z_field) - 1)

SensorInside1D == atmosphere_dim = 1 /\ SensorInside /\ ~SensorBuried

\* the fractional pressure grid position of the sensor, for an altitude up to
\* RTOL below the lowest pressure level taken as on that level
SensorFgp ==
    LET f == fractional_gp(gridpos(zcol1d, SensorZ))
    IN  IF QLt(f, I(0)) THEN I(0) ELSE f

\* the background the entry resolution has to give
EntryBackground1D ==
    IF /\ cloudbox_on /\ ~ppath_inside_cloudbox_do
       /\ QLe(I(At(cloudbox_limits, 0)), SensorFgp)
       /\ QLe(SensorFgp, I(At(cloudbox_limits, 1)))
    THEN "cloud box interior"
    ELSE IF QLe(SensorZ, SurfaceAtSensor) /\ AGt(At(rte_los, 0), 90)
    THEN "surface"
    ELSE "unvalid"

InGeomLoop1D == pc = "loop" /\ agenda.kind = "geom" /\ atmosphere_dim = 1

\* what the next call of ppath_step_geom_1d hands to do_gridrange_1d
GeomStart == ppath_start_1d(ppath_step)

GeomPpc == GeomConstant(ppath_step, GeomStart.r_start, GeomStart.za_start)

GeomRa == QAdd(At(refellipsoid, 0), At(zcol1d, GeomStart.ip))

GeomRb == QAdd(At(refellipsoid, 0), At(zcol1d, GeomStart.ip + 1))

GeomRsurface == QAdd(At(refellipsoid, 0), zs(0, 0))

\* and what do_gridrange_1d returns
GeomRange ==
    do_gridrange_1d(GeomStart.r_start, GeomStart.lat_start, GeomStart.za_start,
                    GeomPpc, agenda.lmax, GeomRa, GeomRb, GeomRsurface)

LastOf(v) == At(v, nelem(v) - 1)

SignedL(g, i) == GeomL1(GeomPpc, At(g.r_v, i), At(g.za_v, i))

\* the radius of the end face of the points g
ExitRadius(g) ==
    CASE g.endface = 2 -> GeomRa
      [] g.endface = 4 -> GeomRb
      [] g.endface = 7 -> GeomRsurface

\* C17: for lmax > 0 the stretch from the start to the exit is divided into
\* n = max(1, ceil(|l2-l1|/lmax)) parts of equal length, no two consecutive
\* points are further apart than lmax, the first point is the start point and
\* the last radius is the exit radius; for lmax <= 0 there are two points
C17_LengthCriterion ==
    InGeomLoop1D =>
      \A g \in {GeomRange} :
        LET n    == nelem(g.r_v) - 1
            lmax == agenda.lmax
            len  == QAbs(QSub(SignedL(g, n), SignedL(g, 0)))
        IN  /\ n >= 1
            /\ nelem(g.lat_v) = n + 1 /\ nelem(g.za_v) = n + 1
            /\ At(g.r_v, 0) = GeomStart.r_start
            /\ At(g.lat_v, 0) = GeomStart.lat_start
            /\ At(g.za_v, 0) = GeomStart.za_start
            /\ At(g.r_v, n) = ExitRadius(g)
            /\ QLe(lmax, I(0)) => n = 1
            /\ QLt(I(0), lmax) =>
                  /\ QLe(len, QMul(I(n), lmax))
                  /\ n > 1 => QLt(QMul(I(n - 1), lmax), len)
                  /\ QLe(g.lstep, lmax)
            /\ g.lstep = QDiv(len, I(n))
            /\ \A i \in 0..(n - 1) :
                  QAbs(QSub(SignedL(g, i + 1), SignedL(g, i))) = g.lstep

\* a stretch longer than lmax is the next step
C17_Witness ==
    /\ InGeomLoop1D
    /\ istep > 0
    /\ QLt(I(0), agenda.lmax)
    /\ nelem(GeomRange.r_v) > 2
    /\ AGt(GeomStart.za_start, 90) /\ ALt(GeomStart.za_start, 180)

\* r*sin|za| = c at every point of the structure p
PointsOnConstant(p, c) ==
    \A i \in 0..(p.np - 1) :
        QMul(At(p.r, i), SinDeg(AAbs(At(At(p.los, i), 0)))) = c

\* a geometrical step takes the constant r*sin|za| of its start point if the
\* constant it is handed is negative, the handed constant otherwise, and
\* returns it; all steps taken so far carry one constant, met by their points
StepsOnConstant ==
    /\ InGeomLoop1D =>
          \A s \in AgendaSteps(ppath_step, istep + 1) :
              /\ s.constant =
                    IF QLt(ppath_step.constant, I(0))
                    THEN QMul(GeomStart.r_start, SinDeg(AAbs(GeomStart.za_start)))
                    ELSE ppath_step.constant
              /\ PointsOnConstant(s, s.constant)
    /\ (agenda.kind = "geom" /\ atmosphere_dim = 1) =>
          \A i \in 1..nelem(ppath_array) :
              /\ ppath_array[i].constant = ppath_array[1].constant
              /\ ppath_array[i].constant = ppath_step.constant
              /\ PointsOnConstant(ppath_array[i], ppath_step.constant)

\* ppath_calc has returned a path found with 1D geometrical steps
GeomReturned ==
    agenda.kind = "geom" /\ atmosphere_dim = 1 /\ pc = "done" /\ err = ""

\* C18 (as stated): geometrical stepping keeps one path constant: every step
\* computes it only if the constant it is handed is negative, all steps and
\* the returned path carry the same constant, and every point of the
\* returned path has r*sin|za| = constant
C18_OneConstant ==
    /\ StepsOnConstant
    /\ GeomReturned =>
          /\ ppath.constant = ppath_step.constant
          /\ PointsOnConstant(ppath, ppath.constant)

\* what the code keeps: the same for the paths with at least one step; a
\* returned path that consists of the sensor position only carries the
\* constant of ppath_start_stepping, -1 for a sensor inside the atmosphere
OneConstantOfSteps ==
    /\ StepsOnConstant
    /\ (GeomReturned /\ nelem(ppath_array) > 0) =>
          /\ ppath.constant = ppath_step.constant
          /\ PointsOnConstant(ppath, ppath.constant)
    /\ (GeomReturned /\ nelem(ppath_array) = 0) =>
          ppath.constant = ppath_start_stepping.ppath.constant

\* a path of several steps through a tangent point has been returned
PathThroughTangentPoint ==
    /\ GeomReturned
    /\ nelem(ppath_array) > 2
    /\ ppath.constant = I(80)
    /\ \E i \in 0..(ppath.np - 1) : At(At(ppath.los, i), 0) = A(90)

\* the next step goes downwards and neither the lower pressure level of its
\* grid range nor the surface is above the path constant
TangentPointAhead ==
    /\ InGeomLoop1D
    /\ AGt(GeomStart.za_start, 90)
    /\ QLe(GeomRa, GeomPpc)
    /\ QLe(GeomRsurface, GeomPpc)

\* the structure p has a point at the tangent point
HasTangentPoint(p) ==
    \E i \in 0..(p.np - 1) :
        At(p.r, i) = p.constant /\ At(At(p.los, i), 0) = A(90)

\* C20: a 1D geometrical step that passes a tangent point inside its grid
\* range returns a point at the tangent point (radius = path constant,
\* zenith angle 90), for every lmax
C20_TangentPointIncluded ==
    TangentPointAhead =>
        \A s \in AgendaSteps(ppath_step, istep + 1) : HasTangentPoint(s)

\* what the code returns: the step ends at the upper pressure level, looking
\* upwards, and has a point at the tangent point only if the number of its
\* parts is even
TangentPointIfEven ==
    TangentPointAhead =>
        \A s \in AgendaSteps(ppath_step, istep + 1) :
            /\ At(s.r, s.np - 1) = GeomRb
            /\ ALt(At(At(s.los, s.np - 1), 0), 90)
            /\ HasTangentPoint(s) <=> (s.np - 1) % 2 = 0

\* a step of two points has passed a tangent point
TangentPointPassed ==
    /\ agenda.kind = "geom" /\ pc = "loop" /\ istep > 0
    /\ ppath_step.np = 2
    /\ AGt(At(At(ppath_step.los, 0), 0), 90)
    /\ ALt(At(At(ppath_step.los, 1), 0), 90)

\* a call with 1D geometrical steps and without cloud box: the sensor is not
\* below the surface and looks downwards, and the impact parameter of its
\* line-of-sight is smaller than the radius of the surface
DownToSurface ==
    /\ agenda.kind = "geom" /\ atmosphere_dim = 1 /\ ~cloudbox_on
    /\ QLe(zs(0, 0), At(rte_pos, 0))
    /\ AGt(At(rte_los, 0), 90)
    /\ QLt(geometrical_ppc(QAdd(At(refellipsoid, 0), At(rte_pos, 0)), At(rte_los, 0)),
           GeomRsurface)

\* the returned path ends at the surface, all earlier points are above it
EndsAtSurface ==
    /\ pc = "done" /\ err = ""
    /\ ppath.background = "surface"
    /\ LastOf(ppath.r) = GeomRsurface
    /\ At(LastOf(ppath.pos), 0) = zs(0, 0)
    /\ \A i \in 0..(ppath.np - 2) : QLt(GeomRsurface, At(ppath.r, i))

\* a step that has reached the surface is the last step
SurfaceEndsLoop ==
    (agenda.kind = "geom" /\ ppath_step.background = "surface") =>
        /\ istep' = istep
        /\ ppath_array' = ppath_array
        /\ pc' # "loop"

\* no geometrical path is cut by the bound of the model
GeomNotCut == (agenda.kind = "geom" /\ pc = "loop") => istep < MaxGeomSteps

VerticalGeom ==
    /\ agenda.kind = "geom"
    /\ NearVertical(At(rte_los, 0))
    /\ pc \in {"loop", "merge", "done"}
    /\ err = ""

\* the point the stepping starts at
VerticalStart == ppath_start_stepping.ppath

\* all points of p have the latitude and the zenith angle of the start point
KeepsLatAndZa(p) ==
    \A i \in 0..(p.np - 1) :
        /\ At(At(p.pos, i), 1) = At(At(VerticalStart.pos, 0), 1)
        /\ At(At(p.los, i), 0) = At(At(VerticalStart.los, 0), 0)

\* the radius does not fall from point to point of p towards zenith, does
\* not grow towards nadir
RadiusMonotone(p) ==
    \A i \in 0..(p.np - 2) :
        IF NearZenith(At(rte_los, 0))
        THEN QLe(At(p.r, i), At(p.r, i + 1))
        ELSE QLe(At(p.r, i + 1), At(p.r, i))

\* no two points of p after each other have the same radius
RadiusChanges(p) ==
    \A i \in 0..(p.np - 2) : At(p.r, i) # At(p.r, i + 1)

\* C19: for a zenith or nadir line-of-sight, in 1D and 2D, every point of
\* every geometrical step and of the returned path keeps the latitude and the
\* zenith angle of the start point; only the radius changes, and it changes
\* monotonically along the path: towards zenith it never falls, towards nadir
\* it never grows, and it differs from point to point of the steps of the
\* loop and of the returned path
C19_VerticalKeepsLatAndZa ==
    VerticalGeom =>
        /\ KeepsLatAndZa(ppath_step) /\ RadiusMonotone(ppath_step)
        /\ \A i \in 1..nelem(ppath_array) :
               /\ KeepsLatAndZa(ppath_array[i])
               /\ RadiusMonotone(ppath_array[i])
               /\ RadiusChanges(ppath_array[i])
        /\ pc = "done" =>
               KeepsLatAndZa(ppath) /\ RadiusMonotone(ppath) /\ RadiusChanges(ppath)

\* a nadir path of two steps, one of them with a point between its ends, has
\* been returned for a sensor between two latitudes of a 2D atmosphere
C19_Witness ==
    /\ VerticalGeom /\ pc = "done"
    /\ atmosphere_dim = 2
    /\ At(rte_los, 0) = A(180)
    /\ At(rte_pos, 1) = A(15)
    /\ nelem(ppath_array) > 1
    /\ \E i \in 1..nelem(ppath_array) : ppath_array[i].np > 2
    /\ ppath.np >= 4

(***************************************************************************)
(* Properties of the steps that meet the surface                           *)
(***************************************************************************)
\* the next 1D geometrical step meets the surface
SurfaceAhead == InGeomLoop1D /\ GeomRange.endface = 7

\* the number of points of p at the radius r
PointsAt(p, r) == Cardinality({i \in 0..(p.np - 1) : At(p.r, i) = r})

\* p goes on from a point at the surface: upwards, with the zenith angle
\* 180 - za of the zenith angle za it arrives with
ContinuedAtSurface(p) ==
    \E i \in 1..(p.np - 2) :
        /\ At(p.r, i) = GeomRsurface
        /\ QLt(At(p.r, i), At(p.r, i + 1))
        /\ ALt(At(At(p.los, i + 1), 0), 90)
        /\ geompath_za_at_r(p.constant, A(80), GeomRsurface)
              = ASub(A(180), geompath_za_at_r(GeomPpc, A(100), GeomRsurface))

AppendRows(a, b, n1, dim) ==
    [j \in 1..Len(a) |->
        IF j <= n1 THEN a[j]
        ELSE [c \in 1..Len(a[j]) |->
                 IF c <= 2 \/ dim = 3 THEN b[j - n1 + 1][c] ELSE a[j][c]]]

\* the elements i >= 1 of ppath2 written behind the n1 elements of ppath1
AppendElems(a, b, n1) ==
    [j \in 1..Len(a) |-> IF j <= n1 THEN a[j] ELSE b[j - n1 + 1]]

\* ppath_append, its loop and its end: p1 is the new ppath1 after the copy of
\* the old one; the start point of ppath2 is written to the local copy
AppendTo(p1, ppath2, n1) ==
    [p1 EXCEPT
       !.pos    = AppendRows(p1.pos, ppath2.pos, n1, p1.dim),
       !.los    = AppendRows(p1.los, ppath2.los, n1, p1.dim),
       !.r      = AppendElems(p1.r, ppath2.r, n1),
       !.nreal  = AppendElems(p1.nreal, ppath2.nreal, n1),
       !.ngroup = AppendElems(p1.ngroup, ppath2.ngroup, n1),
       !.gp_p   = AppendElems(p1.gp_p, ppath2.gp_p, n1),
       !.gp_lat = IF p1.dim >= 2 THEN AppendElems(p1.gp_lat, ppath2.gp_lat, n1)
                  ELSE p1.gp_lat,
       !.gp_lon = IF p1.dim = 3 THEN AppendElems(p1.gp_lon, ppath2.gp_lon, n1)
                  ELSE p1.gp_lon,
       !.lstep  = [j \in 1..Len(p1.lstep) |->
                      IF j < n1 THEN p1.lstep[j] ELSE ppath2.lstep[j - n1 + 1]],
       !.background = IF ppath_what_background(ppath2) > 0
                      THEN ppath2.background ELSE p1.background]

\* the local copy of ppath1, and the new ppath1 filled from it
AppendCopy(ppath1) ==
    ppath_copy(ppath_init_structure(ppath1.dim, ppath1.np), ppath1, ppath1.np)

AppendNew(copy, n) ==
    ppath_copy(ppath_init_structure(copy.dim, n), copy, copy.np)

ppath_append(ppath1, ppath2) ==
    CHOOSE x \in {AppendTo(p1, ppath2, ppath1.np) :
                     p1 \in {AppendNew(c, ppath1.np + ppath2.np - 1) :
                                c \in {AppendCopy(ppath1)}}} : TRUE

\* the largest number of points of the structures that are appended
MaxAppend == 3

\* a structure of n points that differ, numbered from t0
AppendPath(dim, n, t0, bg) ==
    [ppath_init_structure(dim, n) EXCEPT
       !.constant    = I(t0),
       !.background  = bg,
       !.start_pos   = PosVec(Max(2, dim), t0),
       !.start_los   = LosVec(Max(1, dim - 1), t0),
       !.start_lstep = I(t0),
       !.pos    = [j \in 1..n |-> PosVec(Max(2, dim), t0 + j)],
       !.los    = [j \in 1..n |-> LosVec(Max(1, dim - 1), t0 + j)],
       !.r      = [j \in 1..n |-> I(t0 + j)],
       !.nreal  = [j \in 1..n |-> I(t0 + j)],
       !.ngroup = [j \in 1..n |-> I(t0 + j)],
       !.lstep  = [j \in 1..(n - 1) |-> I(t0 + j)],
       !.gp_p   = [j \in 1..n |-> GP(t0 + j, I(0))],
       !.gp_lat = IF dim >= 2 THEN [j \in 1..n |-> GP(t0 + j, I(0))] ELSE <<>>,
       !.gp_lon = IF dim = 3 THEN [j \in 1..n |-> GP(t0 + j, I(0))] ELSE <<>>]

\* a: the structure b begins with the last point of a
BeginsWithLastOf(a, b) ==
    [b EXCEPT !.pos[1] = a.pos[a.np], !.los[1] = a.los[a.np], !.r[1] = a.r[a.np],
              !.nreal[1] = a.nreal[a.np], !.ngroup[1] = a.ngroup[a.np],
              !.gp_p[1] = a.gp_p[a.np],
              !.gp_lat = IF a.dim >= 2 THEN [b.gp_lat EXCEPT ![1] = a.gp_lat[a.np]]
                         ELSE b.gp_lat,
              !.gp_lon = IF a.dim = 3 THEN [b.gp_lon EXCEPT ![1] = a.gp_lon[a.np]]
                         ELSE b.gp_lon]

\* the variables of ppath_calc that a call of a single function leaves alone
NoCall(dim) ==
    /\ atmosphere_dim = dim
    /\ z_field = <<>> /\ lat_grid = <<>> /\ lon_grid = <<>>
    /\ refellipsoid = <<I(20), I(0)>>
    /\ z_surface = <<>>
    /\ cloudbox_on = FALSE /\ cloudbox_limits = <<>>
    /\ ppath_inside_cloudbox_do = FALSE
    /\ rte_pos = <<>> /\ rte_los = <<>>
    /\ agenda = [kind |-> "none", top |-> 0]
    /\ err = ""
    /\ ppath_array = <<>>
    /\ np = 1
    /\ istep = 0
    /\ end_first = NoEnd
    /\ ncalls = 0

Backgrounds == {BackgroundName(c) : c \in {0, 1, 2, 3}}

\* ppath holds ppath1, ppath_step holds ppath2
InitAppend ==
    \E dim \in 1..3, n1 \in 1..MaxAppend, n2 \in 1..MaxAppend :
    \E bg1 \in Backgrounds, bg2 \in Backgrounds :
        /\ NoCall(dim)
        /\ pc = "append"
        /\ locals = NoLocals
        /\ ppath = AppendPath(dim, n1, 100, bg1)
        /\ ppath_step = BeginsWithLastOf(ppath, AppendPath(dim, n2, 200, bg2))

\* the call ppath_append(ppath, ppath_step); np keeps the number of points
\* ppath had
CallAppend ==
    /\ pc = "append"
    /\ ppath' = ppath_append(ppath, ppath_step)
    /\ np' = ppath.np
    /\ pc' = "appended"
    /\ UNCHANGED <<inputs, err, ppath_step, ppath_array, istep, end_first, ncalls, locals>>

SpecAppend == InitAppend /\ [][CallAppend]_vars

\* the points, step lengths and background of ppath after the call, for the
\* n1 = np points ppath had
AppendedPoints ==
    /\ ppath.np = np + ppath_step.np - 1
    /\ \A i \in 0..(ppath.np - 1) :
          LET old == AppendPath(ppath.dim, np, 100, "unvalid")
              from(F(_)) == IF i < np THEN At(F(old), i)
                            ELSE At(F(ppath_step), i - np + 1)
          IN  /\ At(ppath.pos, i) = from(LAMBDA p : p.pos)
              /\ At(ppath.los, i) = from(LAMBDA p : p.los)
              /\ At(ppath.r, i) = from(LAMBDA p : p.r)
              /\ At(ppath.nreal, i) = from(LAMBDA p : p.nreal)
              /\ At(ppath.ngroup, i) = from(LAMBDA p : p.ngroup)
              /\ At(ppath.gp_p, i) = from(LAMBDA p : p.gp_p)
              /\ ppath.dim >= 2 => At(ppath.gp_lat, i) = from(LAMBDA p : p.gp_lat)
              /\ ppath.dim = 3 => At(ppath.gp_lon, i) = from(LAMBDA p : p.gp_lon)
              /\ i < ppath.np - 1 =>
                     At(ppath.lstep, i) = IF i < np - 1 THEN At(old.lstep, i)
                                          ELSE At(ppath_step.lstep, i - np + 1)
    /\ ppath.background \in Backgrounds
    /\ ppath_step.background # "unvalid" => ppath.background = ppath_step.background

\* the start point of ppath after the call is the one of ppath2
AppendedStart ==
    /\ ppath.start_pos = ppath_step.start_pos
    /\ ppath.start_los = ppath_step.start_los
    /\ ppath.start_lstep = ppath_step.start_lstep

\* C27: ppath_append(ppath1, ppath2): ppath1 has n1 + n2 - 1 points, first
\* its old points and step lengths, then the points 1..n2-1 of ppath2 and
\* their step lengths; its background is the one of ppath2 if that is set,
\* and its start_pos, start_los and start_lstep are those of ppath2
C27_Appended ==
    pc = "appended" => AppendedPoints /\ AppendedStart

\* what the code returns: the points as stated; the start point of ppath2 is
\* written to the local copy, so that ppath1 keeps its own start point if
\* ppath2 has one point and has the start point of an empty structure
\* otherwise
AppendedAsCoded ==
    pc = "appended" =>
        /\ AppendedPoints
        /\ ppath.start_pos = IF ppath_step.np = 1 THEN PosVec(Max(2, ppath.dim), 100)
                             ELSE PosVec(Max(2, ppath.dim), -999)
        /\ ppath.start_los = IF ppath_step.np = 1 THEN LosVec(Max(1, ppath.dim - 1), 100)
                             ELSE LosVec(Max(1, ppath.dim - 1), -999)
        /\ ppath.start_lstep = IF ppath_step.np = 1 THEN I(100) ELSE I(0)

(***************************************************************************)
(* Properties of the start point of the returned path                      *)
(***************************************************************************)
Returned == pc = "done" /\ err = ""

\* start_pos and start_los of p are the position and the line-of-sight of
\* the last point of p
StartIsLastPoint(p) ==
    /\ p.start_pos = LastOf(p.pos)
    /\ p.start_los = LastOf(p.los)

\* C28: for every path returned by ppath_calc, start_pos and start_los are
\* the position and the line-of-sight of the last point of the path, for
\* paths of one or more steps and for paths of the one point that
\* ppath_start_stepping has set
C28_StartIsLastPoint == Returned => StartIsLastPoint(ppath)

\* what the code returns: the same for the paths of one or more steps; a path
\* without any step has the start_pos and start_los of an empty structure
StartOfReturned ==
    Returned =>
        IF nelem(ppath_array) > 0
        THEN StartIsLastPoint(ppath)
        ELSE /\ ppath.np = 1
             /\ ppath.start_pos = PosVec(Max(2, atmosphere_dim), -999)
             /\ ppath.start_los = LosVec(Max(1, atmosphere_dim - 1), -999)
             /\ ~StartIsLastPoint(ppath)

(***************************************************************************)
(* Properties of the paths totally outside of a 3D atmosphere              *)
(***************************************************************************)
\* ppath_calc has returned a path in space of one point without any step,
\* for a 3D atmosphere
InSpace3D ==
    /\ Returned
    /\ atmosphere_dim = 3
    /\ nelem(ppath_array) = 0
    /\ ppath.np = 1
    /\ ppath.background = "space"

\* the longitude of the sensor, moved into the range of the longitude grid
SensorLon ==
    resolve_lon(Deg(At(rte_pos, 2)), At(lon_grid, 0), LastOf(lon_grid))

\* C29: 3D, path totally outside of the atmosphere: the point returned has
\* pos = (altitude, latitude, resolved longitude) of the sensor and
\* los = (zenith angle, azimuth angle) of the sensor
C29_SensorPoint3D ==
    InSpace3D =>
        /\ At(ppath.pos, 0) = <<At(rte_pos, 0), At(rte_pos, 1), A(SensorLon[1])>>
        /\ At(ppath.los, 0) = <<At(rte_los, 0), At(rte_los, 1)>>

\* what the code returns: the resolved longitude at the place of the
\* latitude, and the longitude as it was allocated
SensorPoint3DAsCoded ==
    InSpace3D =>
        /\ At(At(ppath.pos, 0), 0) = At(rte_pos, 0)
        /\ At(At(ppath.pos, 0), 1) = A(SensorLon[1])
        /\ At(At(ppath.pos, 0), 2) = UndefA
        /\ At(ppath.los, 0) = <<At(rte_los, 0), At(rte_los, 1)>>
        /\ At(ppath.r, 0) = QAdd(At(refellipsoid, 0), At(rte_pos, 0))

(***************************************************************************)
(* raytrace_1d_linear_basic                                                *)
(*                                                                         *)
(* The function is called alone: locals holds its arguments and its local  *)
(* variables, one action is one pass of its loop.  The refractive index is *)
(* what the agenda behind get_refr_index_1d returns, a function of the     *)
(* radius; the group index is not followed.                                *)
(***************************************************************************)
\* the refractive index fields: vacuum, a constant above one, and a field
\* that is one half at two radii
RefrFields == {"vacuum", "dense", "layer"}

get_refr_index_1d(field, r) ==
    CASE field = "vacuum" -> I(1)
      [] field = "dense"  -> Q(5, 4)
      [] field = "layer"  -> IF r \in {I(15), I(25)} THEN Q(1, 2) ELSE I(1)

refraction_ppc(r, za, refr_index) == QMul(QMul(r, refr_index), SinDeg(AAbs(za)))

\* a changed test: a pass whose length to the exit equals lraytrace does not
\* end the loop
RayGeomStepStrict(L, ppc_step, g) ==
    IF QLt(g.lstep, L.lraytrace)
    THEN [r |-> At(g.r_v, 1), lat |-> At(g.lat_v, 1),
          lcum |-> QAdd(L.lcum, g.lstep), ready |-> TRUE,
          za_flagside |-> L.za, lstep |-> g.lstep, endface |-> g.endface]
    ELSE LET l0 == geompath_l_at_r(ppc_step, L.r)
             l  == IF ALe(L.za, 90) THEN QAdd(l0, L.lraytrace)
                   ELSE QSub(l0, L.lraytrace)
             za_flagside == IF AGt(L.za, 90) /\ QLt(l, I(0)) THEN A(80)
                            ELSE L.za
             r  == geompath_r_at_l(ppc_step, l)
         IN  [r |-> r,
              lat |-> geompath_lat_at_za(L.za, L.lat,
                          geompath_za_at_r(ppc_step, za_flagside, r)),
              lcum |-> QAdd(L.lcum, L.lraytrace), ready |-> FALSE,
              za_flagside |-> za_flagside, lstep |-> g.lstep,
              endface |-> g.endface]

\* the geometrical part of a pass, for what do_gridrange_1d returned
RayGeomStep(L, ppc_step, g) ==
    IF QLe(g.lstep, L.lraytrace)
    THEN [r |-> At(g.r_v, 1), lat |-> At(g.lat_v, 1),
          lcum |-> QAdd(L.lcum, g.lstep), ready |-> TRUE,
          za_flagside |-> L.za, lstep |-> g.lstep, endface |-> g.endface]
    ELSE LET l0 == geompath_l_at_r(ppc_step, L.r)
             l  == IF ALe(L.za, 90) THEN QAdd(l0, L.lraytrace)
                   ELSE QSub(l0, L.lraytrace)
             za_flagside == IF AGt(L.za, 90) /\ QLt(l, I(0)) THEN A(80)
                            ELSE L.za
             r  == geompath_r_at_l(ppc_step, l)
         IN  [r |-> r,
              lat |-> geompath_lat_at_za(L.za, L.lat,
                          geompath_za_at_r(ppc_step, za_flagside, r)),
              lcum |-> QAdd(L.lcum, L.lraytrace), ready |-> FALSE,
              za_flagside |-> za_flagside, lstep |-> g.lstep,
              endface |-> g.endface]

\* the refractive index and the zenith angle at the found point; a point
\* below the local tangent point is moved to it
RayLocalZa(L, s) ==
    LET refr_index == get_refr_index_1d(L.field, s.r)
        ppc_local  == QDiv(L.ppc, refr_index)
    IN  IF QLe(ppc_local, s.r)
        THEN [za |-> geompath_za_at_r(ppc_local, s.za_flagside, s.r),
              pushed |-> FALSE, refr_index |-> refr_index] @@ s
        ELSE [r |-> ppc_local, za |-> A(90), pushed |-> TRUE,
              refr_index |-> refr_index] @@ s

\* the end of a pass: the point is stored or not
RayStore(L, s) ==
    LET store == s.ready \/ QLt(L.lmax, QAdd(s.lcum, L.lraytrace))
    IN  [L EXCEPT !.r = s.r, !.lat = s.lat, !.za = s.za,
                  !.ready = s.ready, !.endface = s.endface,
                  !.lcum = IF store THEN I(0) ELSE s.lcum,
                  !.r_array = IF store THEN Append(@, s.r) ELSE @,
                  !.lat_array = IF store THEN Append(@, s.lat) ELSE @,
                  !.za_array = IF store THEN Append(@, s.za) ELSE @,
                  !.n_array = IF store THEN Append(@, s.refr_index) ELSE @,
                  !.l_array = IF store THEN Append(@, s.lcum) ELSE @,
                  !.passes = Append(@, [lstep |-> s.lstep, from |-> L.r,
                                        down |-> AGt(L.za, 90),
                                        to |-> s.r, pushed |-> s.pushed,
                                        ready |-> s.ready])]

\* one pass of the loop
RayPass(L) ==
    CHOOSE n \in {RayStore(L, s) :
                    s \in {RayLocalZa(L, s0) :
                      s0 \in {RayGeomStep(L, ppc_step,
                                do_gridrange_1d(L.r, L.lat, L.za, ppc_step, I(-1),
                                                L.r1, L.r3, L.r_surface)) :
                        ppc_step \in {geometrical_ppc(L.r, L.za)}}}} : TRUE

\* the state before the loop: the first point is stored
raytrace_1d_start(lmax, field, lraytrace, ppc, r_surface, r1, r3, r, lat, za) ==
    [fn |-> "raytrace_1d_linear_basic",
     lmax |-> lmax, field |-> field, lraytrace |-> lraytrace, ppc |-> ppc,
     r_surface |-> r_surface, r1 |-> r1, r3 |-> r3,
     r |-> r, lat |-> lat, za |-> za,
     ready |-> FALSE, endface |-> 0, lcum |-> I(0),
     r_array |-> <<r>>, lat_array |-> <<lat>>, za_array |-> <<za>>,
     n_array |-> <<get_refr_index_1d(field, r)>>, l_array |-> <<>>,
     passes |-> <<>>]

\* the cells and start points: r1, r3, r_surface, r, za and the lengths
\* lraytrace for which all lengths are roots of squares
RayCell(r1, r3, r_surface, r, za, ls) ==
    [r1 |-> I(r1), r3 |-> I(r3), r_surface |-> I(r_surface), r |-> I(r),
     za |-> za, ls |-> ls]

RayCells ==
    {RayCell(100, 130, 90, 100, A(0), {7, 10, 15, 30, 40}),
     RayCell(100, 130, 90, 130, A(180), {7, 10, 15, 30, 40}),
     RayCell(100, 130, 110, 130, A(180), {7, 10, 20, 30}),
     RayCell(82, 100, 70, 82, Ang(0, 1, Q(80, 82)), {21, 42, 50}),
     RayCell(80, 100, 70, 100, Ang(180, -1, Q(80, 100)), {60, 78, 120, 130}),
     RayCell(13, 26, 5, 20, Ang(180, -1, Q(12, 20)), {7, 11, 16})}

\* the radii of the last cell are those of the field "layer"
RayFields(c) == IF c.r3 = I(26) THEN {"vacuum", "layer"} ELSE {"vacuum", "dense"}

RayLmax == {-1, 5, 10, 20, 50}

\* the call made by ppath_step_refr_1d for a path that starts in the cell
InitRay ==
    \E c \in RayCells, lmax \in RayLmax :
    \E field \in RayFields(c), lraytrace \in c.ls :
        /\ NoCall(1)
        /\ pc = "raytrace"
        /\ ppath = NoStep
        /\ ppath_step = NoStep
        /\ locals = raytrace_1d_start(I(lmax), field, I(lraytrace),
                        refraction_ppc(c.r, c.za, get_refr_index_1d(field, c.r)),
                        c.r_surface, c.r1, c.r3, c.r, A(0), c.za)

\* while( !ready ); istep counts the passes
RayIteration ==
    /\ pc = "raytrace"
    /\ locals' = RayPass(locals)
    /\ pc' = IF locals'.ready THEN "traced" ELSE "raytrace"
    /\ istep' = istep + 1
    /\ UNCHANGED <<inputs, err, ppath, ppath_step, ppath_array, np,
                   end_first, ncalls>>

SpecRay == InitRay /\ [][RayIteration]_vars

\* a pass is made whenever the loop has not been left
RayRuns ==
    /\ pc = "raytrace"
    /\ pc' \in {"raytrace", "traced"}
    /\ istep' = istep + 1

SpecRayFair == InitRay /\ [][RayIteration]_vars /\ WF_<<pc, istep>>(RayRuns)

Traced == pc = "traced"

\* the arrays have a length for each point but the first
RayArrays ==
    pc \in {"raytrace", "traced"} =>
        /\ nelem(locals.l_array) = nelem(locals.r_array) - 1
        /\ nelem(locals.za_array) = nelem(locals.r_array)

(***************************************************************************)
(* Properties of the ray tracing through a grid cell                       *)
(***************************************************************************)
\* the lengths between the points the finished call returns
ReturnedLengths == {locals.l_array[i] : i \in 1..nelem(locals.l_array)}

\* C22: with lmax > 0 the length between two consecutive points returned by
\* the ray tracing of a grid cell never exceeds lmax, whatever lraytrace is
C22_LengthsWithinLmax ==
    (Traced /\ QLt(I(0), locals.lmax)) =>
        \A l \in ReturnedLengths : QLe(l, locals.lmax)

\* what the loop does: a point is stored when one more ray tracing step would
\* pass lmax, so that no length exceeds the larger of lmax and lraytrace, and
\* none exceeds lmax when lraytrace is at most lmax
LengthsWithinLmaxOrLraytrace ==
    (Traced /\ QLt(I(0), locals.lmax)) =>
        \A l \in ReturnedLengths :
            QLe(l, locals.lmax) \/ QLe(l, locals.lraytrace)

\* a finished call with lraytrace <= lmax and a point between start and exit
ShortRayStepsTraced ==
    /\ Traced /\ QLt(I(0), locals.lmax)
    /\ QLe(locals.lraytrace, locals.lmax)
    /\ nelem(locals.r_array) > 2

\* C23: with lmax < 0 the ray tracing of a grid cell returns two points only,
\* the start point and the point where the cell is left, however many ray
\* tracing steps were made
C23_OnlyStartAndExit ==
    (Traced /\ QLt(locals.lmax, I(0))) => nelem(locals.r_array) = 2

\* what the loop does: with lmax < 0 the test lcum + lraytrace > lmax is true
\* in every pass, so that every pass stores its point
EveryPassStoredWithoutLmax ==
    (pc \in {"raytrace", "traced"} /\ QLt(locals.lmax, I(0))) =>
        /\ nelem(locals.r_array) = nelem(locals.passes) + 1
        /\ \A l \in ReturnedLengths : QLe(l, locals.lraytrace)

\* the sum of the rationals of a sequence
RECURSIVE SumOfLengths(_)
SumOfLengths(v) == IF v = <<>> THEN I(0) ELSE QAdd(Head(v), SumOfLengths(Tail(v)))

\* the passes the loop has made
Passes == locals.passes

\* the length a pass adds to the accumulated length
PassLength(p) == IF p.ready THEN p.lstep ELSE locals.lraytrace

\* the number of parts of length lraytrace of the geometrical path from the
\* start point to the exit of the cell
GeomSegments == Max(1, Ceil(QDiv(Passes[1].lstep, locals.lraytrace)))

InRayLoop == pc \in {"raytrace", "traced"}

RayPassesAsCoded ==
    (InRayLoop /\ Passes # <<>>) =>
        /\ \A i \in 1..nelem(Passes) :
              /\ Passes[i].ready = QLe(Passes[i].lstep, locals.lraytrace)
              /\ Passes[i].ready => i = nelem(Passes) /\ Traced
              /\ (i > 1 /\ ~Passes[i - 1].down) => ~Passes[i].down
              /\ (i > 1 /\ ~Passes[i].down) => QLt(Passes[i - 1].to, Passes[i].to)
              /\ (Passes[i].down /\ ~Passes[i].pushed /\ ~Passes[i].ready) =>
                     QLt(Passes[i].to, Passes[i].from)
        /\ QAdd(SumOfLengths(locals.l_array), locals.lcum)
             = SumOfLengths([i \in 1..nelem(Passes) |-> PassLength(Passes[i])])
        /\ (\A i \in 1..nelem(Passes) : ~Passes[i].pushed) =>
               nelem(Passes) <= GeomSegments

LACC == Q(1, 100000)

Lcm(a, b) == (a \div Gcd(a, b)) * b

LSum(a, b) == Q(a[1] * (Lcm(a[2], b[2]) \div a[2]) + b[1] * (Lcm(a[2], b[2]) \div b[2]), Lcm(a[2], b[2]))

LDiff(a, b) == LSum(a, <<-b[1], b[2]>>)

LHalf(a) == IF a[1] % 2 = 0 THEN Q(a[1] \div 2, a[2]) ELSE <<a[1], 2 * a[2]>>

rsurf_at_latlon(lat1, lat3, lon5, lon6, r15, r35, r36, r16, lat, lon) ==
    IF r15 = r35 /\ r35 = r36 /\ r36 = r16 THEN r15
    ELSE IF lat = lat1
    THEN QAdd(r15, QDiv(QMul(QSub(lon, lon5), QSub(r16, r15)), QSub(lon6, lon5)))
    ELSE IF lat = lat3
    THEN QAdd(r35, QDiv(QMul(QSub(lon, lon5), QSub(r36, r35)), QSub(lon6, lon5)))
    ELSE IF lon = lon5
    THEN QAdd(r15, QDiv(QMul(QSub(lat, lat1), QSub(r35, r15)), QSub(lat3, lat1)))
    ELSE IF lon = lon6
    THEN QAdd(r16, QDiv(QMul(QSub(lat, lat1), QSub(r36, r16)), QSub(lat3, lat1)))
    ELSE LET fdlat == QDiv(QSub(lat, lat1), QSub(lat3, lat1))
             fdlon == QDiv(QSub(lon, lon5), QSub(lon6, lon5))
         IN  QAdd(QAdd(QMul(QMul(QSub(I(1), fdlat), QSub(I(1), fdlon)), r15),
                       QMul(QMul(fdlat, QSub(I(1), fdlon)), r35)),
                  QAdd(QMul(QMul(QSub(I(1), fdlat), fdlon), r16),
                       QMul(QMul(fdlat, fdlon), r36)))

\* the trial point at the length l from the start point
TrialPoint(c, l) ==
    [r_end   |-> LSum(c.r_start, QMul(c.dr, l)),
     lat_end |-> LSum(c.lat_start, QMul(c.dlat, l)),
     lon_end |-> resolve_lon(LSum(c.lon_start, QMul(c.dlon, l)), c.lon5, c.lon6)]

\* rsurface15+RTOL >= r15a || ... for levels and surface of one radius each
do_surface(c) == QLe(c.ra, QAdd(c.rsurface, RTOL))

\* is the trial point inside the cell, and the face it is outside of
CellTest(c, p) ==
    LET rlow == rsurf_at_latlon(c.lat1, c.lat3, c.lon5, c.lon6,
                                c.ra, c.ra, c.ra, c.ra, p.lat_end, p.lon_end)
        r_surface == rsurf_at_latlon(c.lat1, c.lat3, c.lon5, c.lon6,
                                c.rsurface, c.rsurface, c.rsurface, c.rsurface,
                                p.lat_end, p.lon_end)
        rupp == rsurf_at_latlon(c.lat1, c.lat3, c.lon5, c.lon6,
                                c.rb, c.rb, c.rb, c.rb, p.lat_end, p.lon_end)
    IN  IF do_surface(c) /\ QLe(rlow, r_surface) /\ QLe(p.r_end, r_surface)
        THEN [inside |-> FALSE, endface |-> 7]
        ELSE IF QLt(p.lat_end, c.lat1) THEN [inside |-> FALSE, endface |-> 1]
        ELSE IF QLt(c.lat3, p.lat_end) THEN [inside |-> FALSE, endface |-> 3]
        ELSE IF QLt(p.lon_end, c.lon5) THEN [inside |-> FALSE, endface |-> 5]
        ELSE IF QLt(c.lon6, p.lon_end) THEN [inside |-> FALSE, endface |-> 6]
        ELSE IF QLt(p.r_end, rlow) THEN [inside |-> FALSE, endface |-> 2]
        ELSE IF QLt(rupp, p.r_end) THEN [inside |-> FALSE, endface |-> 4]
        ELSE [inside |-> TRUE, endface |-> 0]

\* a changed search: a trial point inside the cell gives the upper limit, a
\* point outside the lower
SearchStepSwapped(L, t) ==
    IF L.startup
    THEN IF t.inside
         THEN [L EXCEPT !.l_in = L.l_end, !.l_end = QMul(L.l_end, I(5))]
         ELSE [L EXCEPT !.l_out = L.l_end, !.l_end = LHalf(LSum(L.l_end, L.l_in)),
                        !.startup = FALSE, !.endface = t.endface]
    ELSE LET l_in  == IF t.inside THEN L.l_in ELSE L.l_end
             l_out == IF t.inside THEN L.l_end ELSE L.l_out
         IN  [L EXCEPT !.l_in = l_in, !.l_out = l_out,
                       !.endface = IF t.inside THEN @ ELSE t.endface,
                       !.ready = QLt(LDiff(l_out, l_in), LACC),
                       !.l_end = IF QLt(LDiff(l_out, l_in), LACC) THEN @
                                 ELSE LHalf(LSum(l_out, l_in))]

\* the new limits and the next length to test, for the test t of the point
\* at l_end
SearchStep(L, t) ==
    IF L.startup
    THEN IF t.inside
         THEN [L EXCEPT !.l_in = L.l_end, !.l_end = QMul(L.l_end, I(5))]
         ELSE [L EXCEPT !.l_out = L.l_end, !.l_end = LHalf(LSum(L.l_end, L.l_in)),
                        !.startup = FALSE, !.endface = t.endface]
    ELSE LET l_in  == IF t.inside THEN L.l_end ELSE L.l_in
             l_out == IF t.inside THEN L.l_out ELSE L.l_end
         IN  [L EXCEPT !.l_in = l_in, !.l_out = l_out,
                       !.endface = IF t.inside THEN @ ELSE t.endface,
                       !.ready = QLt(LDiff(l_out, l_in), LACC),
                       !.l_end = IF QLt(LDiff(l_out, l_in), LACC) THEN @
                                 ELSE LHalf(LSum(l_out, l_in))]

\* one pass of the loop
SearchPass(L) ==
    CHOOSE n \in {[SearchStep(L, t) EXCEPT !.tested = Append(@, [l |-> L.l_end, t |-> t])] :
                    t \in {CellTest(L.cell, TrialPoint(L.cell, L.l_end))}} : TRUE

\* the state before the loop
byltest_start(c) ==
    [fn |-> "do_gridcell_3d_byltest", cell |-> c,
     l_end |-> IF QLt(I(0), c.l_start) THEN c.l_start
               ELSE QMul(I(2), QSub(c.rb, c.ra)),
     l_in |-> I(0),
     l_out |-> IF QLt(I(0), c.l_start) THEN c.l_start
               ELSE QMul(I(2), QSub(c.rb, c.ra)),
     ready |-> FALSE, startup |-> TRUE, endface |-> 0, tested |-> <<>>]

\* the cell between the radii 100 and 110, the latitudes 0 and 2 and the
\* longitudes 0 and 2, and a start point in it
SearchCell(dr, dlat, dlon, rsurface, l_start) ==
    [r_start |-> I(104), lat_start |-> I(1), lon_start |-> I(1),
     dr |-> dr, dlat |-> dlat, dlon |-> dlon,
     lat1 |-> I(0), lat3 |-> I(2), lon5 |-> I(0), lon6 |-> I(2),
     ra |-> I(100), rb |-> I(110), rsurface |-> I(rsurface),
     l_start |-> I(l_start)]

SearchSlopes == {Q(1, 1), Q(-1, 1), Q(1, 2), Q(-1, 2)}

SearchTurns == {Q(0, 1), Q(1, 4), Q(-1, 4), Q(1, 8)}

InitSearch ==
    \E dr \in SearchSlopes, dlat \in SearchTurns, dlon \in SearchTurns :
    \E rsurface \in {95, 102}, l_start \in {-1, 1, 3} :
        /\ NoCall(3)
        /\ pc = "search"
        /\ ppath = NoStep
        /\ ppath_step = NoStep
        /\ locals = byltest_start(SearchCell(dr, dlat, dlon, rsurface, l_start))

\* while( !ready ); istep counts the passes
SearchIteration ==
    /\ pc = "search"
    /\ locals' = SearchPass(locals)
    /\ pc' = IF locals'.ready THEN "found" ELSE "search"
    /\ istep' = istep + 1
    /\ UNCHANGED <<inputs, err, ppath, ppath_step, ppath_array, np,
                   end_first, ncalls>>

SpecSearch == InitSearch /\ [][SearchIteration]_vars

(***************************************************************************)
(* Properties of the search of do_gridcell_3d_byltest                      *)
(***************************************************************************)
InSearch == pc \in {"search", "found"}

\* the test of the point at the length l
TestAt(l) == CellTest(locals.cell, TrialPoint(locals.cell, l))

\* the lengths that were tested while the search started up
StartupPasses == {i \in 1..nelem(locals.tested) :
                     \A j \in 1..(i - 1) : locals.tested[j].t.inside}

\* C25: while the trial point is inside the cell the trial length is
\* multiplied by 5; from the first point outside on the search halves the
\* range and keeps 0 <= l_in < l_out, with the point at l_in inside the cell
\* (or l_in = 0) and the point at l_out outside; the search ends only when
\* l_out - l_in < LACC, and the end face is the face the most recent point
\* outside the cell is outside of
C25_SearchKeepsLimits ==
    InSearch =>
        /\ \A i \in StartupPasses :
              (i > 1) => locals.tested[i].l = QMul(locals.tested[i - 1].l, I(5))
        /\ locals.startup => ~locals.ready
        /\ ~locals.startup =>
              /\ locals.l_in[1] >= 0 /\ LDiff(locals.l_out, locals.l_in)[1] > 0
              /\ locals.l_in = I(0) \/ TestAt(locals.l_in).inside
              /\ ~TestAt(locals.l_out).inside
              /\ locals.endface = TestAt(locals.l_out).endface
              /\ locals.tested[nelem(locals.tested)].l \in {locals.l_in, locals.l_out}
              /\ ~locals.ready =>
                    locals.l_end = LHalf(LSum(locals.l_in, locals.l_out))
        /\ locals.ready = (pc = "found")
        /\ locals.ready => QLt(LDiff(locals.l_out, locals.l_in), LACC)
        /\ (~locals.startup /\ nelem(locals.tested) > Cardinality(StartupPasses)) =>
              (locals.ready = QLt(LDiff(locals.l_out, locals.l_in), LACC))

\* a finished search that started with lengths inside the cell, halved the
\* range after it, and whose last point outside the cell is outside of a
\* face that the first point outside was not outside of
C25_Witness ==
    /\ pc = "found"
    /\ Cardinality(StartupPasses) > 2
    /\ nelem(locals.tested) > Cardinality(StartupPasses) + 10
    /\ \E i \in 1..nelem(locals.tested) :
          /\ ~locals.tested[i].t.inside
          /\ locals.tested[i].t.endface # locals.endface
    /\ locals.l_in # I(0)

(***************************************************************************)
(* ppath_start_stepping, 2D: the search for the point where a path that    *)
(* comes from outside and goes downward enters the atmosphere              *)
(*                                                                         *)
(* The loop is followed alone, one action is one pass.  The latitude of a  *)
(* crossing is a sum of arcsines of different ratios: it is the number of   *)
(* degrees with the arcsines rounded to 1/100.  istep holds the parity of  *)
(* the number of passes, so that a search that comes back to an earlier    *)
(* test radius comes back to an earlier state.                             *)
(***************************************************************************)
\* r_crossing_2d for a path that goes downward from above the radius r_hit
r_crossing_2d(r_hit, r_start, lat_start, za_start, ppc) ==
    IF (QLe(r_hit, r_start) /\ ALe(AAbs(za_start), 90)) \/ QLt(r_hit, ppc)
    THEN [lat |-> Undef, l |-> Undef]
    ELSE IF AGt(AAbs(za_start), 90) /\ QLe(r_start, r_hit)
    THEN [lat |-> QSub(QAdd(lat_start, AngDeg(za_start)),
                       AngDeg(geompath_za_at_r(ppc, A(signA(za_start) * 89), r_hit))),
          l |-> QAdd(geompath_l_at_r(ppc, r_start), geompath_l_at_r(ppc, r_hit))]
    ELSE [lat |-> QSub(QAdd(lat_start, AngDeg(za_start)),
                       AngDeg(geompath_za_at_r(ppc, za_start, r_hit))),
          l |-> QAbs(QSub(geompath_l_at_r(ppc, r_start),
                          geompath_l_at_r(ppc, r_hit)))]

\* abs( lt-lt_old ) < LACC, lt_old may be L_NOT_FOUND
EntryConverged(lt, lt_old) ==
    lt_old # Undef /\ QLt(QAbs(QSub(lt, lt_old)), LACC)

\* the state before the loop
entry_start(e) ==
    LET r_toa_max == QMax({At(e.r_toa, i) : i \in 0..(nelem(e.r_toa) - 1)})
        r_toa_min == QMin({At(e.r_toa, i) : i \in 0..(nelem(e.r_toa) - 1)})
        clearly   == QLe(r_toa_max, e.ppc)
    IN  [fn |-> "ppath_start_stepping", e |-> e,
         above |-> clearly, ready |-> clearly, failed |-> FALSE,
         rt |-> IF clearly THEN I(-1)
                ELSE IF e.islatin \/ QLt(r_toa_min, e.ppc) THEN r_toa_max
                ELSE r_toa_min,
         latt |-> Undef, lt |-> Undef, lt_old |-> Undef]

\* one pass of the loop
EntryPass(L) ==
    IF QLt(L.rt, L.e.ppc) THEN [L EXCEPT !.above = TRUE, !.ready = TRUE]
    ELSE LET c == r_crossing_2d(L.rt, L.e.r_p, L.e.lat_p, L.e.za, L.e.ppc)
             llat == nelem(L.e.lat_grid) - 1
         IN  IF QLt(c.lat, At(L.e.lat_grid, 0)) \/ QLt(At(L.e.lat_grid, llat), c.lat)
             THEN [L EXCEPT !.failed = TRUE, !.latt = c.lat, !.lt = c.l]
             ELSE [L EXCEPT !.latt = c.lat, !.lt = c.l, !.lt_old = c.l,
                            !.ready = EntryConverged(c.l, L.lt_old),
                            !.rt = interp(L.e.r_toa, gridpos(L.e.lat_grid, c.lat))]

\* what follows the loop
EntryOutcome(L) ==
    IF L.failed THEN "failed" ELSE IF L.above THEN "above" ELSE "entered"

\* the sensor at the radius 116 looks down with the path constant 80; the
\* top of the atmosphere has one radius around each latitude where the path
\* has one of the radii 100, 89 and 82
EntryCase(lat_p, islatin, grid, r_toa) ==
    [r_p |-> I(116), lat_p |-> I(lat_p), za |-> Ang(180, -1, Q(80, 116)),
     ppc |-> geometrical_ppc(I(116), Ang(180, -1, Q(80, 116))),
     islatin |-> islatin, lat_grid |-> grid, r_toa |-> r_toa]

ToaRadii == {I(70), I(82), I(89), I(100)}

\* the latitude grids: the sensor outside the grid, the same without the
\* first latitudes, and the sensor above the grid
EntryGrids ==
    {[lats |-> -4..0, islatin |-> FALSE,
      lat_grid |-> <<I(5), I(12), I(16), I(22), I(28), I(35)>>],
     [lats |-> -4..0, islatin |-> FALSE,
      lat_grid |-> <<I(14), I(15), I(16), I(22), I(28), I(35)>>],
     [lats |-> 6..9, islatin |-> TRUE,
      lat_grid |-> <<I(5), I(19), I(24), I(31), I(37), I(44)>>]}

InitEntry ==
    \E g \in EntryGrids, a \in ToaRadii, b \in ToaRadii, c \in ToaRadii :
    \E lat_p \in g.lats :
        /\ NoCall(2)
        /\ ppath = NoStep
        /\ ppath_step = NoStep
        /\ locals = entry_start(EntryCase(lat_p, g.islatin, g.lat_grid,
                                          <<a, a, b, b, c, c>>))
        /\ pc = IF locals.ready THEN EntryOutcome(locals) ELSE "entry"

\* while( !ready && !failed )
EntryIteration ==
    /\ pc = "entry"
    /\ locals' = EntryPass(locals)
    /\ pc' = IF locals'.ready \/ locals'.failed THEN EntryOutcome(locals')
             ELSE "entry"
    /\ istep' = 1 - istep
    /\ UNCHANGED <<inputs, err, ppath, ppath_step, ppath_array, np,
                   end_first, ncalls>>

SpecEntry == InitEntry /\ [][EntryIteration]_vars

\* a pass is made whenever the loop has not been left
EntryRuns ==
    /\ pc = "entry"
    /\ pc' \in {"entry", "failed", "above", "entered"}
    /\ istep' = 1 - istep

SpecEntryFair == InitEntry /\ [][EntryIteration]_vars /\ WF_<<pc, istep>>(EntryRuns)

(***************************************************************************)
(* Properties of the search for the entry point                            *)
(***************************************************************************)
EntryEnded == pc \in {"failed", "above", "entered"}

\* C26: the search for the entry point always ends, as 'above', as 'failed'
\* or with an entry point for which two consecutive lengths differ by less
\* than LACC
C26_EntrySearchEnds == <>EntryEnded

\* what holds when the search has ended: exactly one outcome, 'above' with a
\* test radius below the path constant or a top of the atmosphere that is
\* nowhere above it, 'failed' with a crossing outside the latitude grid, an
\* entry point with the last two lengths equal within LACC
EntryOutcomeAsCoded ==
    EntryEnded =>
        /\ pc = "failed" <=> locals.failed
        /\ pc = "above" <=> (locals.above /\ ~locals.failed)
        /\ pc = "entered" <=> (locals.ready /\ ~locals.above /\ ~locals.failed)
        /\ locals.failed => ~locals.ready /\ ~locals.above
        /\ locals.above => QLt(locals.rt, locals.e.ppc)
        /\ pc = "entered" => locals.lt = locals.lt_old

\* the search is in a pass with a test radius it has had two passes before
SearchAlternates ==
    /\ pc = "entry"
    /\ locals.lt_old # Undef
    /\ EntryPass(EntryPass(locals)).rt = locals.rt
    /\ EntryPass(locals).rt # locals.rt

(***************************************************************************)
(* ppath_start_2d: the pressure range of the first step of a 2D path       *)
(*                                                                         *)
(* The start point of the first step is the point ppath_start_stepping     *)
(* gives: the sensor, for a sensor inside the atmosphere that does not     *)
(* look into the surface, or the point the search above finds on the top   *)
(* of the atmosphere.  The planet has the radius 60, the lowest pressure   *)
(* level is the surface and rises towards the first latitude, the second   *)
(* level is at 68 and the top of the atmosphere has the radii of the       *)
(* search.                                                                 *)
(***************************************************************************)
StartLevel0 == <<7, 0, 0, 0, 0, 0>>

StartField(r_toa) ==
    <<Rows(StartLevel0, 1), Level(8, 6, 1),
      [i \in 1..6 |-> <<QSub(r_toa[i], I(60))>>]>>

\* what the search reads of the atmosphere and of the sensor
EntryInputs ==
    LET lp   == nelem(z_field) - 1
        llat == nelem(lat_grid) - 1
        lat  == Deg(At(rte_pos, 1))
        r_p  == QAdd(refell2r(lat), At(rte_pos, 0))
    IN  [r_p |-> r_p, lat_p |-> lat, za |-> At(rte_los, 0),
         ppc |-> geometrical_ppc(r_p, At(rte_los, 0)),
         islatin |-> QLt(At(lat_grid, 0), lat) /\ QLt(lat, At(lat_grid, llat)),
         lat_grid |-> lat_grid,
         r_toa |-> [i \in 1..(llat + 1) |->
                      QAdd(refell2r(At(lat_grid, i - 1)), zf(lp, i - 1, 0))]]

\* the point on the top of the atmosphere the search has found
EntryPoint(L) ==
    [r |-> L.rt, lat |-> L.latt,
     za |-> geompath_za_at_r(L.e.ppc, L.e.za, L.rt),
     gp_p |-> GP(nelem(z_field) - 2, I(1)),
     gp_lat |-> gridpos(lat_grid, L.latt)]

\* the sensor as the first point of the path
SensorPoint(p) ==
    [r |-> At(p.r, 0), lat |-> Deg(At(At(p.pos, 0), 1)),
     za |-> At(At(p.los, 0), 0),
     gp_p |-> At(p.gp_p, 0), gp_lat |-> At(p.gp_lat, 0)]

\* z_field has the pressure level i
InField(i) == i \in 0..(nelem(z_field) - 1)

\* ppath_start_2d: the latitude range, the first pressure range, the grid
\* position that is forced to a grid point for a start point on a level, and
\* the pressure range after the tilt of the level is considered.  The
\* radius of a level outside of z_field is not compared: the start point is
\* then on the other level of the range.
start_ranges_2d(sp) ==
    LET ilat == gridpos2gridrange(sp.gp_lat, AGe(sp.za, 0))
        ip   == gridpos2gridrange(sp.gp_p, ALe(AAbs(sp.za), 90))
        lat1 == At(lat_grid, ilat)
        lat3 == At(lat_grid, ilat + 1)
        rlev(i) == rsurf_at_lat(lat1, lat3, QAdd(refell2r(lat1), zf(i, ilat, 0)),
                                QAdd(refell2r(lat3), zf(i, ilat + 1, 0)), sp.lat)
        onlev(i) == InField(i) /\ QLt(QAbs(QSub(sp.r, rlev(i))), RTOL)
        gp   == IF onlev(ip) \/ onlev(ip + 1)
                THEN gridpos_force_end_fd(sp.gp_p, nelem(z_field))
                ELSE sp.gp_p
    IN  [fn |-> "ppath_start_2d", point |-> sp, ilat |-> ilat, ip0 |-> ip,
         ip |-> StartIp(gp, ilat, ip, sp.r, sp.za)]

\* a sensor at the latitude 8: on the surface, between the levels and on the
\* second level
StartSensors ==
    {[pos |-> <<I(z), A(8)>>, los |-> <<A(za)>>] :
        z \in {4, 6, 8}, za \in {60, 95, 150, -60, -95, -150}}

\* the latitude grid with a grid point where the path of the search has the
\* radius 100
PeakGrid ==
    [lats |-> {0}, islatin |-> FALSE,
     lat_grid |-> <<I(5), Q(953, 100), I(12), I(22), I(28), I(35)>>]

StartAtmosphere(grid, r_toa) ==
    /\ atmosphere_dim = 2
    /\ lat_grid = grid /\ lon_grid = <<>>
    /\ refellipsoid = <<I(60), I(0)>>
    /\ z_field = StartField(r_toa)
    /\ z_surface = Rows(StartLevel0, 1)
    /\ cloudbox_on = FALSE /\ cloudbox_limits = <<>>
    /\ ppath_inside_cloudbox_do = FALSE
    /\ agenda = [kind |-> "none", top |-> 0]
    /\ ppath_array = <<>>
    /\ np = 1
    /\ istep = 0
    /\ end_first = NoEnd
    /\ ncalls = 0
    /\ ppath_step = NoStep

InitStartOutside ==
    \E g \in EntryGrids \cup {PeakGrid}, a \in ToaRadii, b \in ToaRadii, c \in ToaRadii :
    \E lat_p \in g.lats :
        /\ StartAtmosphere(g.lat_grid, <<a, a, b, b, c, c>>)
        /\ rte_pos = <<I(56), A(lat_p)>>
        /\ rte_los = <<Ang(180, -1, Q(80, 116))>>
        /\ err = ""
        /\ ppath = NoStep
        /\ locals = entry_start(EntryInputs)
        /\ pc = IF locals.ready THEN EntryOutcome(locals) ELSE "entry"

InitStartInside ==
    \E s \in StartSensors :
        /\ StartAtmosphere(<<I(5), I(12), I(16), I(22), I(28), I(35)>>,
                           <<I(100), I(100), I(100), I(100), I(100), I(100)>>)
        /\ rte_pos = s.pos
        /\ rte_los = s.los
        /\ err = start_stepping_2d.err
        /\ ppath = start_stepping_2d.ppath
        /\ locals = [fn |-> "ppath_start_stepping", point |-> SensorPoint(ppath)]
        /\ pc = IF err = "" /\ ppath_what_background(ppath) = 0 THEN "inside"
                ELSE "ended"

InitStart == InitStartOutside \/ InitStartInside

\* ppath_start_2d in the first step, for the point of ppath_start_stepping
FirstStepStart ==
    /\ pc \in {"entered", "inside"}
    /\ locals' = start_ranges_2d(IF pc = "entered" THEN EntryPoint(locals)
                                 ELSE locals.point)
    /\ pc' = "started"
    /\ UNCHANGED <<inputs, err, ppath, ppath_step, ppath_array, np, istep,
                   end_first, ncalls>>

SpecStart == InitStart /\ [][EntryIteration \/ FirstStepStart]_vars

(***************************************************************************)
(* Properties of the pressure range of the first step                      *)
(***************************************************************************)
Started == pc = "started"

EntryOnPeak ==
    /\ is_gridpos_at_index_i(locals.point.gp_p, nelem(z_field) - 1)
    /\ At(locals.point.gp_lat.fd, 0) = I(0)
    /\ ~is_los_downwards(locals.point.za,
            plevel_angletilt(locals.point.r,
                plevel_slope_2d(zrow(nelem(z_field) - 1), locals.point.gp_lat,
                                locals.point.za)))

\* what holds of the range: it is inside the grid unless the start point is
\* an entry point at such a grid point, and then it is the range above the
\* top level
IpInsideGridOffPeak ==
    Started =>
        IF EntryOnPeak THEN locals.ip = nelem(z_field) - 1
        ELSE 0 <= locals.ip /\ locals.ip <= nelem(z_field) - 2

\* the range ppath_start_2d reads the radii of first, before the tilt is
\* considered, is inside the grid
FirstIpInsideGrid ==
    Started => (0 <= locals.ip0 /\ locals.ip0 <= nelem(z_field) - 2)

\* a sensor on the lowest level that looks below the horizon but not into the
\* falling surface: the range is moved up by one
SensorOnLowestLevelStarted ==
    /\ Started
    /\ is_gridpos_at_index_i(locals.point.gp_p, 0)
    /\ AGt(AAbs(locals.point.za), 90)
    /\ locals.ip = locals.ip0 + 1

\* an entry point inside a latitude range has the highest range
EntryPointStarted ==
    /\ Started
    /\ is_gridpos_at_index_i(locals.point.gp_p, nelem(z_field) - 1)
    /\ At(locals.point.gp_lat.fd, 0) # I(0)
    /\ locals.ip = nelem(z_field) - 2
====
